---------------------------- MODULE Spec2Model ----------------------------
(***************************************************************************)
(* Model of src/color_to_hex.py: the two request handlers (index and       *)
(* api_hex), the text colour resolver they call (parse_color_input with    *)
(* text_to_rgb_extended as its fallback), the hex formatter rgb_to_hex and *)
(* the dominant colour of an uploaded image (image_dominant_rgb).          *)
(*                                                                         *)
(* A Python str is a sequence of one-character strings, so that every      *)
(* regular expression, split, strip and conversion of the source is        *)
(* computed character by character.  A Python int of any size is a         *)
(* sequence of limbs; a Python float is an IEEE 754 binary64, and every    *)
(* operation on floats rounds as the hardware does.  The components of a   *)
(* colour tuple are integers below 2^31.  A raised exception is a result   *)
(* record with ok = FALSE.                                                 *)
(***************************************************************************)
EXTENDS Integers, Sequences, FiniteSets, TLC

\* ------------------------------------------------------------------------
\* Characters and Python str methods
\* ------------------------------------------------------------------------

Digits == {"0", "1", "2", "3", "4", "5", "6", "7", "8", "9"}

LowerLetters == <<"a", "b", "c", "d", "e", "f", "g", "h", "i", "j", "k", "l", "m",
                  "n", "o", "p", "q", "r", "s", "t", "u", "v", "w", "x", "y", "z">>

UpperLetters == <<"A", "B", "C", "D", "E", "F", "G", "H", "I", "J", "K", "L", "M",
                  "N", "O", "P", "Q", "R", "S", "T", "U", "V", "W", "X", "Y", "Z">>

LowerSet == {LowerLetters[i] : i \in 1..Len(LowerLetters)}

\* The ASCII characters that str.strip() removes, str.split() splits at and \s
\* matches: the blank, the characters 9 to 13 and the characters 28 to 31 (11
\* and 28 to 31 have no escape and stand in their strings as they are).
Whitespace == {" ", "\t", "\n", "", "\f", "\r", "", "", "", ""}

\* The ASCII characters that float() removes around a number: the blank and the
\* characters 9 to 13.
FloatSpace == {" ", "\t", "\n", "", "\f", "\r"}

\* What a pattern that ends with $ is matched against: $ matches at the end and
\* before a newline that ends the text.
Chomp(s) ==
    IF s # <<>> /\ s[Len(s)] = "\n" THEN SubSeq(s, 1, Len(s) - 1) ELSE s

MinOf(S) == CHOOSE x \in S : \A y \in S : x <= y

MaxOf(S) == CHOOSE x \in S : \A y \in S : x >= y

\* str.lower() on one character.
LowerChar(c) ==
    LET up == {i \in 1..Len(UpperLetters) : UpperLetters[i] = c}
    IN  IF up = {} THEN c ELSE LowerLetters[CHOOSE i \in up : TRUE]

\* str.upper() on one character.
UpperChar(c) ==
    LET lo == {i \in 1..Len(LowerLetters) : LowerLetters[i] = c}
    IN  IF lo = {} THEN c ELSE UpperLetters[CHOOSE i \in lo : TRUE]

Lower(s) == [i \in 1..Len(s) |-> LowerChar(s[i])]

Upper(s) == [i \in 1..Len(s) |-> UpperChar(s[i])]

\* str.strip()
Strip(s) ==
    LET keep == {i \in 1..Len(s) : s[i] \notin Whitespace}
    IN  IF keep = {} THEN <<>> ELSE SubSeq(s, MinOf(keep), MaxOf(keep))

\* str.rstrip()
RStrip(s) ==
    LET keep == {i \in 1..Len(s) : s[i] \notin Whitespace}
    IN  IF keep = {} THEN <<>> ELSE SubSeq(s, 1, MaxOf(keep))

\* str.rstrip(chars) and str.lstrip(chars) for a set of characters.
RStripChars(s, cs) ==
    LET keep == {i \in 1..Len(s) : s[i] \notin cs}
    IN  IF keep = {} THEN <<>> ELSE SubSeq(s, 1, MaxOf(keep))

LStripChars(s, cs) ==
    LET keep == {i \in 1..Len(s) : s[i] \notin cs}
    IN  IF keep = {} THEN <<>> ELSE SubSeq(s, MinOf(keep), Len(s))

\* str.split(c): one more part than there are c's, empty parts kept.
RECURSIVE SplitOn(_, _)
SplitOn(s, c) ==
    LET at == {i \in 1..Len(s) : s[i] = c}
    IN  IF at = {} THEN <<s>>
        ELSE LET i == MinOf(at)
             IN  <<SubSeq(s, 1, i - 1)>> \o SplitOn(SubSeq(s, i + 1, Len(s)), c)

\* str.split(): the maximal runs of non-whitespace.
RECURSIVE SplitWords(_)
SplitWords(s) ==
    LET start == {i \in 1..Len(s) : s[i] \notin Whitespace}
    IN  IF start = {} THEN <<>>
        ELSE LET i == MinOf(start)
                 stop == {j \in i..Len(s) : s[j] \in Whitespace}
                 j == IF stop = {} THEN Len(s) + 1 ELSE MinOf(stop)
             IN  <<SubSeq(s, i, j - 1)>> \o SplitWords(SubSeq(s, j, Len(s)))

\* ' '.join(words)
RECURSIVE JoinSpace(_)
JoinSpace(ws) ==
    IF ws = <<>> THEN <<>>
    ELSE IF Len(ws) = 1 THEN ws[1]
    ELSE ws[1] \o <<" ">> \o JoinSpace(Tail(ws))

\* str.replace(c, '')
RemoveChar(s, c) == SelectSeq(s, LAMBDA x : x # c)

\* str.replace(c, '', 1)
RemoveFirst(s, c) ==
    LET at == {i \in 1..Len(s) : s[i] = c}
    IN  IF at = {} THEN s
        ELSE SubSeq(s, 1, MinOf(at) - 1) \o SubSeq(s, MinOf(at) + 1, Len(s))

StartsWith(s, p) == Len(s) >= Len(p) /\ SubSeq(s, 1, Len(p)) = p

EndsWith(s, p) == Len(s) >= Len(p) /\ SubSeq(s, Len(s) - Len(p) + 1, Len(s)) = p

\* str.isdigit(): not empty and decimal digits only.
IsDigits(s) == s # <<>> /\ \A i \in 1..Len(s) : s[i] \in Digits

DigitVal(c) ==
    CASE c = "0" -> 0 [] c = "1" -> 1 [] c = "2" -> 2 [] c = "3" -> 3 [] c = "4" -> 4
      [] c = "5" -> 5 [] c = "6" -> 6 [] c = "7" -> 7 [] c = "8" -> 8 [] c = "9" -> 9

\* int(s) for a string of decimal digits.
RECURSIVE DecVal(_)
DecVal(s) ==
    IF s = <<>> THEN 0
    ELSE 10 * DecVal(SubSeq(s, 1, Len(s) - 1)) + DigitVal(s[Len(s)])

HexLower == Digits \cup {"a", "b", "c", "d", "e", "f"}

HexAny == HexLower \cup {"A", "B", "C", "D", "E", "F"}

HexDigitVal(c) ==
    LET l == LowerChar(c)
    IN  CASE l \in Digits -> DigitVal(l)
          [] l = "a" -> 10 [] l = "b" -> 11 [] l = "c" -> 12
          [] l = "d" -> 13 [] l = "e" -> 14 [] l = "f" -> 15

\* int(s, 16) for two hex digits.
HexByte(hi, lo) == 16 * HexDigitVal(hi) + HexDigitVal(lo)

HexUpperDigits == <<"0", "1", "2", "3", "4", "5", "6", "7",
                    "8", "9", "A", "B", "C", "D", "E", "F">>

\* Format02X with the zero padding forgotten ("{:X}").
Format02X_nopad(v) ==
    IF v < 16 THEN <<HexUpperDigits[v + 1]>>
    ELSE <<HexUpperDigits[(v \div 16) + 1], HexUpperDigits[(v % 16) + 1]>>

\* Format02X with lowercase digits ("{:02x}").
Format02X_lower(v) ==
    <<LowerChar(HexUpperDigits[(v \div 16) + 1]), LowerChar(HexUpperDigits[(v % 16) + 1])>>

\* "{:02X}".format(v) for v in 0..255.
Format02X(v) == <<HexUpperDigits[(v \div 16) + 1], HexUpperDigits[(v % 16) + 1]>>

\* ------------------------------------------------------------------------
\* Python int of any size: a natural number as the sequence of its limbs,
\* the least significant first, without a zero limb at the end (0 is <<>>)
\* ------------------------------------------------------------------------

LimbBits == 15

Base == 2^LimbBits

Min2(a, b) == IF a <= b THEN a ELSE b

Max2(a, b) == IF a >= b THEN a ELSE b

RECURSIVE NTrim(_)
NTrim(a) ==
    IF a = <<>> THEN <<>>
    ELSE IF a[Len(a)] # 0 THEN a
    ELSE NTrim(SubSeq(a, 1, Len(a) - 1))

RECURSIVE NFromInt(_)
NFromInt(n) == IF n = 0 THEN <<>> ELSE <<n % Base>> \o NFromInt(n \div Base)

RECURSIVE NToInt(_)
NToInt(a) == IF a = <<>> THEN 0 ELSE a[1] + Base * NToInt(Tail(a))

Limb(a, i) == IF i <= Len(a) THEN a[i] ELSE 0

\* a + b from limb i on, with the carry c.
RECURSIVE NAddFrom(_, _, _, _)
NAddFrom(a, b, i, c) ==
    IF i > Len(a) /\ i > Len(b) THEN (IF c = 0 THEN <<>> ELSE <<c>>)
    ELSE <<(Limb(a, i) + Limb(b, i) + c) % Base>>
         \o NAddFrom(a, b, i + 1, (Limb(a, i) + Limb(b, i) + c) \div Base)

NAdd(a, b) == NAddFrom(a, b, 1, 0)

\* a - b for a >= b, from limb i on, with the borrow c.
RECURSIVE NSubFrom(_, _, _, _)
NSubFrom(a, b, i, c) ==
    IF i > Len(a) THEN <<>>
    ELSE <<(Limb(a, i) - Limb(b, i) - c + Base) % Base>>
         \o NSubFrom(a, b, i + 1, IF Limb(a, i) - Limb(b, i) - c < 0 THEN 1 ELSE 0)

NSub(a, b) == NTrim(NSubFrom(a, b, 1, 0))

\* -1, 0 or 1 as a is below, equal to or above b.
RECURSIVE NCmpFrom(_, _, _)
NCmpFrom(a, b, i) ==
    IF i = 0 THEN 0
    ELSE IF a[i] < b[i] THEN -1
    ELSE IF a[i] > b[i] THEN 1
    ELSE NCmpFrom(a, b, i - 1)

NCmp(a, b) ==
    IF Len(a) < Len(b) THEN -1
    ELSE IF Len(a) > Len(b) THEN 1
    ELSE NCmpFrom(a, b, Len(a))

\* a * k for 0 <= k <= Base.
RECURSIVE NMulSmallFrom(_, _, _, _)
NMulSmallFrom(a, k, i, c) ==
    IF i > Len(a) THEN (IF c = 0 THEN <<>> ELSE <<c>>)
    ELSE <<(a[i] * k + c) % Base>> \o NMulSmallFrom(a, k, i + 1, (a[i] * k + c) \div Base)

NMulSmall(a, k) == IF k = 0 THEN <<>> ELSE NMulSmallFrom(a, k, 1, 0)

RECURSIVE NMul(_, _)
NMul(a, b) ==
    IF a = <<>> \/ b = <<>> THEN <<>>
    ELSE NAdd(NMulSmall(a, b[1]), IF Len(b) = 1 THEN <<>> ELSE <<0>> \o NMul(a, Tail(b)))

\* Long division of a by d, 1 <= d <= Base, from limb i down with the remainder r so
\* far: the limbs of the quotient, the most significant first, then the remainder.
RECURSIVE NDivFrom(_, _, _, _)
NDivFrom(a, d, i, r) ==
    IF i = 0 THEN <<r>>
    ELSE <<(r * Base + a[i]) \div d>> \o NDivFrom(a, d, i - 1, (r * Base + a[i]) % d)

QuotRem(s, n) == <<NTrim([i \in 1..n |-> s[n + 1 - i]]), s[n + 1]>>

\* <<a \div d, a % d>>
NDivSmall(a, d) == QuotRem(NDivFrom(a, d, Len(a), 0), Len(a))

\* a * 2^k
NShl(a, k) ==
    IF a = <<>> THEN <<>>
    ELSE [i \in 1..(k \div LimbBits) |-> 0] \o NMulSmall(a, 2^(k % LimbBits))

\* <<a \div 2^k, whether a bit was lost>>
ShiftedOut(qr, lost) == <<qr[1], lost \/ qr[2] # 0>>

NShr(a, k) ==
    IF k \div LimbBits >= Len(a) THEN <<<<>>, a # <<>>>>
    ELSE ShiftedOut(NDivSmall(SubSeq(a, k \div LimbBits + 1, Len(a)), 2^(k % LimbBits)),
                    \E i \in 1..(k \div LimbBits) : a[i] # 0)

\* a % 2^k
NLow(a, k) ==
    IF k \div LimbBits >= Len(a) THEN a
    ELSE NTrim(SubSeq(a, 1, k \div LimbBits) \o <<a[k \div LimbBits + 1] % 2^(k % LimbBits)>>)

RECURSIVE IntBitLen(_)
IntBitLen(n) == IF n = 0 THEN 0 ELSE 1 + IntBitLen(n \div 2)

\* int.bit_length()
NBitLen(a) == IF a = <<>> THEN 0 ELSE LimbBits * (Len(a) - 1) + IntBitLen(a[Len(a)])

NIsOdd(a) == a # <<>> /\ a[1] % 2 = 1

\* The number of zero bits at the low end of a # 0.
RECURSIVE IntTz(_)
IntTz(n) == IF n % 2 = 1 THEN 0 ELSE 1 + IntTz(n \div 2)

RECURSIVE NTz(_)
NTz(a) == IF a[1] = 0 THEN LimbBits + NTz(Tail(a)) ELSE IntTz(a[1])

\* int(s) of a string of decimal digits, four digits at a time.
RECURSIVE NFromDigits(_)
NFromDigits(s) ==
    IF Len(s) <= 4 THEN NFromInt(DecVal(s))
    ELSE NAdd(NMulSmall(NFromDigits(SubSeq(s, 1, Len(s) - 4)), 10000),
              NFromInt(DecVal(SubSeq(s, Len(s) - 3, Len(s)))))

\* a * 10^k
RECURSIVE NMulPow10(_, _)
NMulPow10(a, k) ==
    IF a = <<>> \/ k = 0 THEN a
    ELSE IF k >= 4 THEN NMulPow10(NMulSmall(a, 10000), k - 4)
    ELSE NMulPow10(NMulSmall(a, 10), k - 1)

\* <<a \div 10^k, whether a remainder was lost>>, qr being <<a, 0>> at first.
RECURSIVE NDivPow10(_, _, _)
NDivPow10(qr, k, lost) ==
    IF qr[1] = <<>> \/ k = 0 THEN <<qr[1], lost \/ qr[2] # 0>>
    ELSE IF k >= 4 THEN NDivPow10(NDivSmall(qr[1], 10000), k - 4, lost \/ qr[2] # 0)
    ELSE NDivPow10(NDivSmall(qr[1], 10), k - 1, lost \/ qr[2] # 0)

\* ------------------------------------------------------------------------
\* Python float: an IEEE 754 binary64.  A finite value is (-1)^neg * m * 2^e
\* with m odd (m = 0, e = 0 for zero); every operation gives the exact result
\* rounded to 53 bits, a tie to the even one.
\* ------------------------------------------------------------------------

MantBits == 53

MinExp == -1074

MaxExp == 1024

Fin(neg, m, e) == [kind |-> "fin", neg |-> neg, m |-> m, e |-> e]

DZero == Fin(FALSE, <<>>, 0)

Inf(neg) == [kind |-> "inf", neg |-> neg, m |-> <<>>, e |-> 0]

NaN == [kind |-> "nan", neg |-> FALSE, m |-> <<>>, e |-> 0]

IsFinite(x) == x.kind = "fin"

IsZero(x) == x.kind = "fin" /\ x.m = <<>>

CanonAt(neg, m, e, tz) == Fin(neg, NShr(m, tz)[1], e + tz)

\* The record of (-1)^neg * m * 2^e.
Canon(neg, m, e) == IF m = <<>> THEN DZero ELSE CanonAt(neg, m, e, NTz(m))

\* A result of 2^1024 or more is an infinity.
Overflowed(x) == IF NBitLen(x.m) + x.e > MaxExp THEN Inf(x.neg) ELSE x

\* q holds the bits kept; half is the first bit dropped, lost whether a later one
\* is set: a tie goes to the even neighbour.
RoundEven(q, half, lost) == IF half /\ (lost \/ NIsOdd(q)) THEN NAdd(q, <<1>>) ELSE q

RoundAt(qs, lost) == RoundEven(NShr(qs[1], 1)[1], NIsOdd(qs[1]), lost \/ qs[2])

RoundBy(neg, m, e, lost, drop) ==
    Overflowed(Canon(neg,
                     IF drop <= 0 THEN m ELSE RoundAt(NShr(m, drop - 1), lost),
                     IF drop <= 0 THEN e ELSE e + drop))

\* The float nearest to (-1)^neg * (m + f) * 2^e, where 0 <= f < 1 and f > 0 when
\* lost; m has more than 54 bits when lost.
DRound(neg, m, e, lost) ==
    RoundBy(neg, m, e, lost, Max2(NBitLen(m) - MantBits, MinExp - e))

\* float(n) of an int below 2^31 in magnitude.
DInt(n) == Canon(n < 0, NFromInt(IF n < 0 THEN -n ELSE n), 0)

\* n / d of two ints, d in 1..Base.
DivRounded(neg, qr, e) == DRound(neg, qr[1], e, qr[2] # 0)

RoundLost(neg, qs, e) == DRound(neg, qs[1], e, qs[2])

DRatio(n, d) ==
    DivRounded(n < 0, NDivSmall(NShl(NFromInt(IF n < 0 THEN -n ELSE n), 5 * LimbBits), d),
               -(5 * LimbBits))

\* -x
DNeg(x) == IF x.kind = "nan" \/ IsZero(x) THEN x ELSE [x EXCEPT !.neg = ~x.neg]

AddAligned(nx, a, ny, b, e, c) ==
    DRound(IF nx = ny \/ c > 0 THEN nx ELSE ny,
           IF nx = ny THEN NAdd(a, b)
           ELSE NSub(IF c >= 0 THEN a ELSE b, IF c >= 0 THEN b ELSE a),
           e, FALSE)

AddShifted(nx, a, ny, b, e) == AddAligned(nx, a, ny, b, e, NCmp(a, b))

AddAt(x, y, e) == AddShifted(x.neg, NShl(x.m, x.e - e), y.neg, NShl(y.m, y.e - e), e)

\* x + y
DAdd(x, y) ==
    IF x.kind = "nan" \/ y.kind = "nan" THEN NaN
    ELSE IF x.kind = "inf" THEN (IF y.kind = "inf" /\ y.neg # x.neg THEN NaN ELSE x)
    ELSE IF y.kind = "inf" THEN y
    ELSE IF x.m = <<>> THEN y
    ELSE IF y.m = <<>> THEN x
    ELSE AddAt(x, y, Min2(x.e, y.e))

\* x - y
DSub(x, y) == DAdd(x, DNeg(y))

\* x * y
DMul(x, y) ==
    IF x.kind = "nan" \/ y.kind = "nan" THEN NaN
    ELSE IF x.kind = "inf" \/ y.kind = "inf"
    THEN (IF IsZero(x) \/ IsZero(y) THEN NaN ELSE Inf(x.neg # y.neg))
    ELSE DRound(x.neg # y.neg, NMul(x.m, y.m), x.e + y.e, FALSE)

\* x / d for a float d that is an integer of 1..Base (100.0, 360.0, a count).
DDivInt(x, d) ==
    IF x.kind # "fin" THEN x
    ELSE DivRounded(x.neg, NDivSmall(NShl(x.m, 5 * LimbBits), d), x.e - 5 * LimbBits)

IsNegative(x) == x.kind # "nan" /\ x.neg /\ ~IsZero(x)

\* x < y, x == y and x <= y: a comparison with nan is False.
DLess(x, y) == IsNegative(DSub(x, y))

DEq(x, y) == x.kind # "nan" /\ x = y

DLeq(x, y) == DLess(x, y) \/ DEq(x, y)

\* x % 1.0: fmod(x, 1.0), and 1.0 added to a negative remainder.
Wrapped(r) == IF r.neg THEN DAdd(r, DInt(1)) ELSE r

DMod1(x) ==
    IF x.kind # "fin" THEN NaN
    ELSE IF x.e >= 0 THEN DZero
    ELSE Wrapped(Canon(x.neg, NLow(x.m, -x.e), x.e))

IntSigned(neg, n) == IF neg THEN -n ELSE n

RoundedInt(neg, q, half, lost) ==
    IntSigned(neg, NToInt(q) + (IF half /\ (lost \/ NIsOdd(q)) THEN 1 ELSE 0))

RoundedAt(neg, qs) == RoundedInt(neg, NShr(qs[1], 1)[1], NIsOdd(qs[1]), qs[2])

\* round(x) of a finite x below 2^31 in magnitude: the nearest int, a tie to the even one.
DRoundInt(x) ==
    IF x.e >= 0 THEN IntSigned(x.neg, NToInt(NShl(x.m, x.e)))
    ELSE RoundedAt(x.neg, NShr(x.m, -x.e - 1))

\* int(x) of a finite x below 2^31 in magnitude: towards zero.
DTrunc(x) ==
    IF x.e >= 0 THEN IntSigned(x.neg, NToInt(NShl(x.m, x.e)))
    ELSE IntSigned(x.neg, NToInt(NShr(x.m, -x.e)[1]))

\* ------------------------------------------------------------------------
\* float(s)
\* ------------------------------------------------------------------------

\* "Underscores are only allowed between digits."
UnderscoresOk(s) ==
    \A i \in 1..Len(s) :
        s[i] = "_" => (i > 1 /\ i < Len(s) /\ s[i - 1] \in Digits /\ s[i + 1] \in Digits)

AllDigits(s) == \A i \in 1..Len(s) : s[i] \in Digits

\* D * 10^x as <<the integer part of the value over 2^e, whether a bit is lost>>
\* and e: exact for x >= 0, a quotient carried to 5 - x limbs otherwise.
ScaledParts(D, x) ==
    IF x >= 0 THEN <<NMulPow10(D, x), FALSE>>
    ELSE NDivPow10(<<NShl(D, (5 - x) * LimbBits), 0>>, -x, FALSE)

ScaledExp(x) == IF x >= 0 THEN 0 ELSE -((5 - x) * LimbBits)

\* The float of the digits D scaled by 10^x.
Scaled(neg, D, x, ndigits) ==
    IF D = <<>> THEN DZero
    ELSE IF x > 310 THEN Inf(neg)
    ELSE IF -x - ndigits > 330 THEN DZero
    ELSE RoundLost(neg, ScaledParts(D, x), ScaledExp(x))

\* [digits][.digits] with a digit at least; exp is the value of the exponent.
Mantissa(neg, parts, ip, fp, exp) ==
    IF Len(parts) <= 2 /\ AllDigits(ip) /\ AllDigits(fp) /\ Len(ip) + Len(fp) >= 1
    THEN <<TRUE, Scaled(neg, NFromDigits(ip \o fp), exp - Len(fp), Len(ip) + Len(fp))>>
    ELSE <<FALSE, NaN>>

MantissaOf(neg, parts, exp) ==
    Mantissa(neg, parts, parts[1], IF Len(parts) = 2 THEN parts[2] ELSE <<>>, exp)

\* [eE][+-]?digits
ExponentOk(ex) ==
    LET d == IF ex # <<>> /\ ex[1] \in {"-", "+"} THEN Tail(ex) ELSE ex
    IN  d # <<>> /\ AllDigits(d)

ExponentOf(ex) ==
    IF ex[1] = "-" THEN -DecVal(Tail(ex))
    ELSE IF ex[1] = "+" THEN DecVal(Tail(ex))
    ELSE DecVal(ex)

\* mantissa[exponent], the underscores removed; at is the set of indexes of e and E.
Decimal(neg, body, at) ==
    IF at # {} /\ ~ExponentOk(SubSeq(body, MinOf(at) + 1, Len(body))) THEN <<FALSE, NaN>>
    ELSE MantissaOf(neg,
                    SplitOn(IF at = {} THEN body ELSE SubSeq(body, 1, MinOf(at) - 1), "."),
                    IF at = {} THEN 0 ELSE ExponentOf(SubSeq(body, MinOf(at) + 1, Len(body))))

ExponentMarks(s) == {i \in 1..Len(s) : s[i] \in {"e", "E"}}

Unsigned(neg, body, low) ==
    IF low \in {<<"i", "n", "f">>, <<"i", "n", "f", "i", "n", "i", "t", "y">>}
    THEN <<TRUE, Inf(neg)>>
    ELSE IF low = <<"n", "a", "n">> THEN <<TRUE, NaN>>
    ELSE IF ~UnderscoresOk(body) THEN <<FALSE, NaN>>
    ELSE Decimal(neg, RemoveChar(body, "_"), ExponentMarks(RemoveChar(body, "_")))

SignedBody(neg, body) == Unsigned(neg, body, Lower(body))

IsSigned(s) == s # <<>> /\ s[1] \in {"-", "+"}

FloatOfStripped(s) ==
    SignedBody(IsSigned(s) /\ s[1] = "-", IF IsSigned(s) THEN Tail(s) ELSE s)

\* float(s): <<TRUE, the float>>, or <<FALSE, nan>> for the ValueError.
ParseFloat(s0) == FloatOfStripped(LStripChars(RStripChars(s0, FloatSpace), FloatSpace))

\* ------------------------------------------------------------------------
\* PIL.ImageColor.getrgb, the library call of try_imagecolor_getrgb
\* ------------------------------------------------------------------------

\* A result of a resolver: the exception raised (ok = FALSE) or the tuple returned.
Fail == [ok |-> FALSE, rgb |-> <<>>]

Ok(t) == [ok |-> TRUE, rgb |-> t]

\* The first of two attempts that succeeds: "r = a; if r: return r", then b.
OrElse(a, b) == IF a.ok THEN a ELSE b

\* ImageColor.colormap
PilColormap == <<
    <<<<"a", "l", "i", "c", "e", "b", "l", "u", "e">>,
      <<"#", "f", "0", "f", "8", "f", "f">>>>,
    <<<<"a", "n", "t", "i", "q", "u", "e", "w", "h", "i", "t", "e">>,
      <<"#", "f", "a", "e", "b", "d", "7">>>>,
    <<<<"a", "q", "u", "a">>,
      <<"#", "0", "0", "f", "f", "f", "f">>>>,
    <<<<"a", "q", "u", "a", "m", "a", "r", "i", "n", "e">>,
      <<"#", "7", "f", "f", "f", "d", "4">>>>,
    <<<<"a", "z", "u", "r", "e">>,
      <<"#", "f", "0", "f", "f", "f", "f">>>>,
    <<<<"b", "e", "i", "g", "e">>,
      <<"#", "f", "5", "f", "5", "d", "c">>>>,
    <<<<"b", "i", "s", "q", "u", "e">>,
      <<"#", "f", "f", "e", "4", "c", "4">>>>,
    <<<<"b", "l", "a", "c", "k">>,
      <<"#", "0", "0", "0", "0", "0", "0">>>>,
    <<<<"b", "l", "a", "n", "c", "h", "e", "d", "a", "l", "m", "o", "n", "d">>,
      <<"#", "f", "f", "e", "b", "c", "d">>>>,
    <<<<"b", "l", "u", "e">>,
      <<"#", "0", "0", "0", "0", "f", "f">>>>,
    <<<<"b", "l", "u", "e", "v", "i", "o", "l", "e", "t">>,
      <<"#", "8", "a", "2", "b", "e", "2">>>>,
    <<<<"b", "r", "o", "w", "n">>,
      <<"#", "a", "5", "2", "a", "2", "a">>>>,
    <<<<"b", "u", "r", "l", "y", "w", "o", "o", "d">>,
      <<"#", "d", "e", "b", "8", "8", "7">>>>,
    <<<<"c", "a", "d", "e", "t", "b", "l", "u", "e">>,
      <<"#", "5", "f", "9", "e", "a", "0">>>>,
    <<<<"c", "h", "a", "r", "t", "r", "e", "u", "s", "e">>,
      <<"#", "7", "f", "f", "f", "0", "0">>>>,
    <<<<"c", "h", "o", "c", "o", "l", "a", "t", "e">>,
      <<"#", "d", "2", "6", "9", "1", "e">>>>,
    <<<<"c", "o", "r", "a", "l">>,
      <<"#", "f", "f", "7", "f", "5", "0">>>>,
    <<<<"c", "o", "r", "n", "f", "l", "o", "w", "e", "r", "b", "l", "u", "e">>,
      <<"#", "6", "4", "9", "5", "e", "d">>>>,
    <<<<"c", "o", "r", "n", "s", "i", "l", "k">>,
      <<"#", "f", "f", "f", "8", "d", "c">>>>,
    <<<<"c", "r", "i", "m", "s", "o", "n">>,
      <<"#", "d", "c", "1", "4", "3", "c">>>>,
    <<<<"c", "y", "a", "n">>,
      <<"#", "0", "0", "f", "f", "f", "f">>>>,
    <<<<"d", "a", "r", "k", "b", "l", "u", "e">>,
      <<"#", "0", "0", "0", "0", "8", "b">>>>,
    <<<<"d", "a", "r", "k", "c", "y", "a", "n">>,
      <<"#", "0", "0", "8", "b", "8", "b">>>>,
    <<<<"d", "a", "r", "k", "g", "o", "l", "d", "e", "n", "r", "o", "d">>,
      <<"#", "b", "8", "8", "6", "0", "b">>>>,
    <<<<"d", "a", "r", "k", "g", "r", "a", "y">>,
      <<"#", "a", "9", "a", "9", "a", "9">>>>,
    <<<<"d", "a", "r", "k", "g", "r", "e", "y">>,
      <<"#", "a", "9", "a", "9", "a", "9">>>>,
    <<<<"d", "a", "r", "k", "g", "r", "e", "e", "n">>,
      <<"#", "0", "0", "6", "4", "0", "0">>>>,
    <<<<"d", "a", "r", "k", "k", "h", "a", "k", "i">>,
      <<"#", "b", "d", "b", "7", "6", "b">>>>,
    <<<<"d", "a", "r", "k", "m", "a", "g", "e", "n", "t", "a">>,
      <<"#", "8", "b", "0", "0", "8", "b">>>>,
    <<<<"d", "a", "r", "k", "o", "l", "i", "v", "e", "g", "r", "e", "e", "n">>,
      <<"#", "5", "5", "6", "b", "2", "f">>>>,
    <<<<"d", "a", "r", "k", "o", "r", "a", "n", "g", "e">>,
      <<"#", "f", "f", "8", "c", "0", "0">>>>,
    <<<<"d", "a", "r", "k", "o", "r", "c", "h", "i", "d">>,
      <<"#", "9", "9", "3", "2", "c", "c">>>>,
    <<<<"d", "a", "r", "k", "r", "e", "d">>,
      <<"#", "8", "b", "0", "0", "0", "0">>>>,
    <<<<"d", "a", "r", "k", "s", "a", "l", "m", "o", "n">>,
      <<"#", "e", "9", "9", "6", "7", "a">>>>,
    <<<<"d", "a", "r", "k", "s", "e", "a", "g", "r", "e", "e", "n">>,
      <<"#", "8", "f", "b", "c", "8", "f">>>>,
    <<<<"d", "a", "r", "k", "s", "l", "a", "t", "e", "b", "l", "u", "e">>,
      <<"#", "4", "8", "3", "d", "8", "b">>>>,
    <<<<"d", "a", "r", "k", "s", "l", "a", "t", "e", "g", "r", "a", "y">>,
      <<"#", "2", "f", "4", "f", "4", "f">>>>,
    <<<<"d", "a", "r", "k", "s", "l", "a", "t", "e", "g", "r", "e", "y">>,
      <<"#", "2", "f", "4", "f", "4", "f">>>>,
    <<<<"d", "a", "r", "k", "t", "u", "r", "q", "u", "o", "i", "s", "e">>,
      <<"#", "0", "0", "c", "e", "d", "1">>>>,
    <<<<"d", "a", "r", "k", "v", "i", "o", "l", "e", "t">>,
      <<"#", "9", "4", "0", "0", "d", "3">>>>,
    <<<<"d", "e", "e", "p", "p", "i", "n", "k">>,
      <<"#", "f", "f", "1", "4", "9", "3">>>>,
    <<<<"d", "e", "e", "p", "s", "k", "y", "b", "l", "u", "e">>,
      <<"#", "0", "0", "b", "f", "f", "f">>>>,
    <<<<"d", "i", "m", "g", "r", "a", "y">>,
      <<"#", "6", "9", "6", "9", "6", "9">>>>,
    <<<<"d", "i", "m", "g", "r", "e", "y">>,
      <<"#", "6", "9", "6", "9", "6", "9">>>>,
    <<<<"d", "o", "d", "g", "e", "r", "b", "l", "u", "e">>,
      <<"#", "1", "e", "9", "0", "f", "f">>>>,
    <<<<"f", "i", "r", "e", "b", "r", "i", "c", "k">>,
      <<"#", "b", "2", "2", "2", "2", "2">>>>,
    <<<<"f", "l", "o", "r", "a", "l", "w", "h", "i", "t", "e">>,
      <<"#", "f", "f", "f", "a", "f", "0">>>>,
    <<<<"f", "o", "r", "e", "s", "t", "g", "r", "e", "e", "n">>,
      <<"#", "2", "2", "8", "b", "2", "2">>>>,
    <<<<"f", "u", "c", "h", "s", "i", "a">>,
      <<"#", "f", "f", "0", "0", "f", "f">>>>,
    <<<<"g", "a", "i", "n", "s", "b", "o", "r", "o">>,
      <<"#", "d", "c", "d", "c", "d", "c">>>>,
    <<<<"g", "h", "o", "s", "t", "w", "h", "i", "t", "e">>,
      <<"#", "f", "8", "f", "8", "f", "f">>>>,
    <<<<"g", "o", "l", "d">>,
      <<"#", "f", "f", "d", "7", "0", "0">>>>,
    <<<<"g", "o", "l", "d", "e", "n", "r", "o", "d">>,
      <<"#", "d", "a", "a", "5", "2", "0">>>>,
    <<<<"g", "r", "a", "y">>,
      <<"#", "8", "0", "8", "0", "8", "0">>>>,
    <<<<"g", "r", "e", "y">>,
      <<"#", "8", "0", "8", "0", "8", "0">>>>,
    <<<<"g", "r", "e", "e", "n">>,
      <<"#", "0", "0", "8", "0", "0", "0">>>>,
    <<<<"g", "r", "e", "e", "n", "y", "e", "l", "l", "o", "w">>,
      <<"#", "a", "d", "f", "f", "2", "f">>>>,
    <<<<"h", "o", "n", "e", "y", "d", "e", "w">>,
      <<"#", "f", "0", "f", "f", "f", "0">>>>,
    <<<<"h", "o", "t", "p", "i", "n", "k">>,
      <<"#", "f", "f", "6", "9", "b", "4">>>>,
    <<<<"i", "n", "d", "i", "a", "n", "r", "e", "d">>,
      <<"#", "c", "d", "5", "c", "5", "c">>>>,
    <<<<"i", "n", "d", "i", "g", "o">>,
      <<"#", "4", "b", "0", "0", "8", "2">>>>,
    <<<<"i", "v", "o", "r", "y">>,
      <<"#", "f", "f", "f", "f", "f", "0">>>>,
    <<<<"k", "h", "a", "k", "i">>,
      <<"#", "f", "0", "e", "6", "8", "c">>>>,
    <<<<"l", "a", "v", "e", "n", "d", "e", "r">>,
      <<"#", "e", "6", "e", "6", "f", "a">>>>,
    <<<<"l", "a", "v", "e", "n", "d", "e", "r", "b", "l", "u", "s", "h">>,
      <<"#", "f", "f", "f", "0", "f", "5">>>>,
    <<<<"l", "a", "w", "n", "g", "r", "e", "e", "n">>,
      <<"#", "7", "c", "f", "c", "0", "0">>>>,
    <<<<"l", "e", "m", "o", "n", "c", "h", "i", "f", "f", "o", "n">>,
      <<"#", "f", "f", "f", "a", "c", "d">>>>,
    <<<<"l", "i", "g", "h", "t", "b", "l", "u", "e">>,
      <<"#", "a", "d", "d", "8", "e", "6">>>>,
    <<<<"l", "i", "g", "h", "t", "c", "o", "r", "a", "l">>,
      <<"#", "f", "0", "8", "0", "8", "0">>>>,
    <<<<"l", "i", "g", "h", "t", "c", "y", "a", "n">>,
      <<"#", "e", "0", "f", "f", "f", "f">>>>,
    <<<<"l", "i", "g", "h", "t", "g", "o", "l", "d", "e", "n", "r", "o", "d", "y", "e", "l", "l", "o", "w">>,
      <<"#", "f", "a", "f", "a", "d", "2">>>>,
    <<<<"l", "i", "g", "h", "t", "g", "r", "e", "e", "n">>,
      <<"#", "9", "0", "e", "e", "9", "0">>>>,
    <<<<"l", "i", "g", "h", "t", "g", "r", "a", "y">>,
      <<"#", "d", "3", "d", "3", "d", "3">>>>,
    <<<<"l", "i", "g", "h", "t", "g", "r", "e", "y">>,
      <<"#", "d", "3", "d", "3", "d", "3">>>>,
    <<<<"l", "i", "g", "h", "t", "p", "i", "n", "k">>,
      <<"#", "f", "f", "b", "6", "c", "1">>>>,
    <<<<"l", "i", "g", "h", "t", "s", "a", "l", "m", "o", "n">>,
      <<"#", "f", "f", "a", "0", "7", "a">>>>,
    <<<<"l", "i", "g", "h", "t", "s", "e", "a", "g", "r", "e", "e", "n">>,
      <<"#", "2", "0", "b", "2", "a", "a">>>>,
    <<<<"l", "i", "g", "h", "t", "s", "k", "y", "b", "l", "u", "e">>,
      <<"#", "8", "7", "c", "e", "f", "a">>>>,
    <<<<"l", "i", "g", "h", "t", "s", "l", "a", "t", "e", "g", "r", "a", "y">>,
      <<"#", "7", "7", "8", "8", "9", "9">>>>,
    <<<<"l", "i", "g", "h", "t", "s", "l", "a", "t", "e", "g", "r", "e", "y">>,
      <<"#", "7", "7", "8", "8", "9", "9">>>>,
    <<<<"l", "i", "g", "h", "t", "s", "t", "e", "e", "l", "b", "l", "u", "e">>,
      <<"#", "b", "0", "c", "4", "d", "e">>>>,
    <<<<"l", "i", "g", "h", "t", "y", "e", "l", "l", "o", "w">>,
      <<"#", "f", "f", "f", "f", "e", "0">>>>,
    <<<<"l", "i", "m", "e">>,
      <<"#", "0", "0", "f", "f", "0", "0">>>>,
    <<<<"l", "i", "m", "e", "g", "r", "e", "e", "n">>,
      <<"#", "3", "2", "c", "d", "3", "2">>>>,
    <<<<"l", "i", "n", "e", "n">>,
      <<"#", "f", "a", "f", "0", "e", "6">>>>,
    <<<<"m", "a", "g", "e", "n", "t", "a">>,
      <<"#", "f", "f", "0", "0", "f", "f">>>>,
    <<<<"m", "a", "r", "o", "o", "n">>,
      <<"#", "8", "0", "0", "0", "0", "0">>>>,
    <<<<"m", "e", "d", "i", "u", "m", "a", "q", "u", "a", "m", "a", "r", "i", "n", "e">>,
      <<"#", "6", "6", "c", "d", "a", "a">>>>,
    <<<<"m", "e", "d", "i", "u", "m", "b", "l", "u", "e">>,
      <<"#", "0", "0", "0", "0", "c", "d">>>>,
    <<<<"m", "e", "d", "i", "u", "m", "o", "r", "c", "h", "i", "d">>,
      <<"#", "b", "a", "5", "5", "d", "3">>>>,
    <<<<"m", "e", "d", "i", "u", "m", "p", "u", "r", "p", "l", "e">>,
      <<"#", "9", "3", "7", "0", "d", "b">>>>,
    <<<<"m", "e", "d", "i", "u", "m", "s", "e", "a", "g", "r", "e", "e", "n">>,
      <<"#", "3", "c", "b", "3", "7", "1">>>>,
    <<<<"m", "e", "d", "i", "u", "m", "s", "l", "a", "t", "e", "b", "l", "u", "e">>,
      <<"#", "7", "b", "6", "8", "e", "e">>>>,
    <<<<"m", "e", "d", "i", "u", "m", "s", "p", "r", "i", "n", "g", "g", "r", "e", "e", "n">>,
      <<"#", "0", "0", "f", "a", "9", "a">>>>,
    <<<<"m", "e", "d", "i", "u", "m", "t", "u", "r", "q", "u", "o", "i", "s", "e">>,
      <<"#", "4", "8", "d", "1", "c", "c">>>>,
    <<<<"m", "e", "d", "i", "u", "m", "v", "i", "o", "l", "e", "t", "r", "e", "d">>,
      <<"#", "c", "7", "1", "5", "8", "5">>>>,
    <<<<"m", "i", "d", "n", "i", "g", "h", "t", "b", "l", "u", "e">>,
      <<"#", "1", "9", "1", "9", "7", "0">>>>,
    <<<<"m", "i", "n", "t", "c", "r", "e", "a", "m">>,
      <<"#", "f", "5", "f", "f", "f", "a">>>>,
    <<<<"m", "i", "s", "t", "y", "r", "o", "s", "e">>,
      <<"#", "f", "f", "e", "4", "e", "1">>>>,
    <<<<"m", "o", "c", "c", "a", "s", "i", "n">>,
      <<"#", "f", "f", "e", "4", "b", "5">>>>,
    <<<<"n", "a", "v", "a", "j", "o", "w", "h", "i", "t", "e">>,
      <<"#", "f", "f", "d", "e", "a", "d">>>>,
    <<<<"n", "a", "v", "y">>,
      <<"#", "0", "0", "0", "0", "8", "0">>>>,
    <<<<"o", "l", "d", "l", "a", "c", "e">>,
      <<"#", "f", "d", "f", "5", "e", "6">>>>,
    <<<<"o", "l", "i", "v", "e">>,
      <<"#", "8", "0", "8", "0", "0", "0">>>>,
    <<<<"o", "l", "i", "v", "e", "d", "r", "a", "b">>,
      <<"#", "6", "b", "8", "e", "2", "3">>>>,
    <<<<"o", "r", "a", "n", "g", "e">>,
      <<"#", "f", "f", "a", "5", "0", "0">>>>,
    <<<<"o", "r", "a", "n", "g", "e", "r", "e", "d">>,
      <<"#", "f", "f", "4", "5", "0", "0">>>>,
    <<<<"o", "r", "c", "h", "i", "d">>,
      <<"#", "d", "a", "7", "0", "d", "6">>>>,
    <<<<"p", "a", "l", "e", "g", "o", "l", "d", "e", "n", "r", "o", "d">>,
      <<"#", "e", "e", "e", "8", "a", "a">>>>,
    <<<<"p", "a", "l", "e", "g", "r", "e", "e", "n">>,
      <<"#", "9", "8", "f", "b", "9", "8">>>>,
    <<<<"p", "a", "l", "e", "t", "u", "r", "q", "u", "o", "i", "s", "e">>,
      <<"#", "a", "f", "e", "e", "e", "e">>>>,
    <<<<"p", "a", "l", "e", "v", "i", "o", "l", "e", "t", "r", "e", "d">>,
      <<"#", "d", "b", "7", "0", "9", "3">>>>,
    <<<<"p", "a", "p", "a", "y", "a", "w", "h", "i", "p">>,
      <<"#", "f", "f", "e", "f", "d", "5">>>>,
    <<<<"p", "e", "a", "c", "h", "p", "u", "f", "f">>,
      <<"#", "f", "f", "d", "a", "b", "9">>>>,
    <<<<"p", "e", "r", "u">>,
      <<"#", "c", "d", "8", "5", "3", "f">>>>,
    <<<<"p", "i", "n", "k">>,
      <<"#", "f", "f", "c", "0", "c", "b">>>>,
    <<<<"p", "l", "u", "m">>,
      <<"#", "d", "d", "a", "0", "d", "d">>>>,
    <<<<"p", "o", "w", "d", "e", "r", "b", "l", "u", "e">>,
      <<"#", "b", "0", "e", "0", "e", "6">>>>,
    <<<<"p", "u", "r", "p", "l", "e">>,
      <<"#", "8", "0", "0", "0", "8", "0">>>>,
    <<<<"r", "e", "b", "e", "c", "c", "a", "p", "u", "r", "p", "l", "e">>,
      <<"#", "6", "6", "3", "3", "9", "9">>>>,
    <<<<"r", "e", "d">>,
      <<"#", "f", "f", "0", "0", "0", "0">>>>,
    <<<<"r", "o", "s", "y", "b", "r", "o", "w", "n">>,
      <<"#", "b", "c", "8", "f", "8", "f">>>>,
    <<<<"r", "o", "y", "a", "l", "b", "l", "u", "e">>,
      <<"#", "4", "1", "6", "9", "e", "1">>>>,
    <<<<"s", "a", "d", "d", "l", "e", "b", "r", "o", "w", "n">>,
      <<"#", "8", "b", "4", "5", "1", "3">>>>,
    <<<<"s", "a", "l", "m", "o", "n">>,
      <<"#", "f", "a", "8", "0", "7", "2">>>>,
    <<<<"s", "a", "n", "d", "y", "b", "r", "o", "w", "n">>,
      <<"#", "f", "4", "a", "4", "6", "0">>>>,
    <<<<"s", "e", "a", "g", "r", "e", "e", "n">>,
      <<"#", "2", "e", "8", "b", "5", "7">>>>,
    <<<<"s", "e", "a", "s", "h", "e", "l", "l">>,
      <<"#", "f", "f", "f", "5", "e", "e">>>>,
    <<<<"s", "i", "e", "n", "n", "a">>,
      <<"#", "a", "0", "5", "2", "2", "d">>>>,
    <<<<"s", "i", "l", "v", "e", "r">>,
      <<"#", "c", "0", "c", "0", "c", "0">>>>,
    <<<<"s", "k", "y", "b", "l", "u", "e">>,
      <<"#", "8", "7", "c", "e", "e", "b">>>>,
    <<<<"s", "l", "a", "t", "e", "b", "l", "u", "e">>,
      <<"#", "6", "a", "5", "a", "c", "d">>>>,
    <<<<"s", "l", "a", "t", "e", "g", "r", "a", "y">>,
      <<"#", "7", "0", "8", "0", "9", "0">>>>,
    <<<<"s", "l", "a", "t", "e", "g", "r", "e", "y">>,
      <<"#", "7", "0", "8", "0", "9", "0">>>>,
    <<<<"s", "n", "o", "w">>,
      <<"#", "f", "f", "f", "a", "f", "a">>>>,
    <<<<"s", "p", "r", "i", "n", "g", "g", "r", "e", "e", "n">>,
      <<"#", "0", "0", "f", "f", "7", "f">>>>,
    <<<<"s", "t", "e", "e", "l", "b", "l", "u", "e">>,
      <<"#", "4", "6", "8", "2", "b", "4">>>>,
    <<<<"t", "a", "n">>,
      <<"#", "d", "2", "b", "4", "8", "c">>>>,
    <<<<"t", "e", "a", "l">>,
      <<"#", "0", "0", "8", "0", "8", "0">>>>,
    <<<<"t", "h", "i", "s", "t", "l", "e">>,
      <<"#", "d", "8", "b", "f", "d", "8">>>>,
    <<<<"t", "o", "m", "a", "t", "o">>,
      <<"#", "f", "f", "6", "3", "4", "7">>>>,
    <<<<"t", "u", "r", "q", "u", "o", "i", "s", "e">>,
      <<"#", "4", "0", "e", "0", "d", "0">>>>,
    <<<<"v", "i", "o", "l", "e", "t">>,
      <<"#", "e", "e", "8", "2", "e", "e">>>>,
    <<<<"w", "h", "e", "a", "t">>,
      <<"#", "f", "5", "d", "e", "b", "3">>>>,
    <<<<"w", "h", "i", "t", "e">>,
      <<"#", "f", "f", "f", "f", "f", "f">>>>,
    <<<<"w", "h", "i", "t", "e", "s", "m", "o", "k", "e">>,
      <<"#", "f", "5", "f", "5", "f", "5">>>>,
    <<<<"y", "e", "l", "l", "o", "w">>,
      <<"#", "f", "f", "f", "f", "0", "0">>>>,
    <<<<"y", "e", "l", "l", "o", "w", "g", "r", "e", "e", "n">>,
      <<"#", "9", "a", "c", "d", "3", "2">>>>>>

\* dict.get(key): the value, or <<>> for None.
Lookup(table, key) ==
    LET at == {i \in 1..Len(table) : table[i][1] = key}
    IN  IF at = {} THEN <<>> ELSE table[CHOOSE i \in at : TRUE][2]

IsHexLower(s) == \A i \in 1..Len(s) : s[i] \in HexLower

\* The comma separated arguments of name(...)$ or <<>> when the text has not that
\* form; the patterns below accept no parenthesis among the arguments.
FuncArgs(c, name) ==
    IF StartsWith(c, name \o <<"(">>) /\ EndsWith(c, <<")">>)
       /\ Len(c) >= Len(name) + 2
    THEN SplitOn(SubSeq(c, Len(name) + 2, Len(c) - 1), ",")
    ELSE <<>>

\* \s*(\d+)\s*
IsPilInt(a) == IsDigits(Strip(a))

\* \s*(\d+)%\s*
IsPilPercent(a) ==
    LET x == Strip(a)
    IN  Len(x) >= 2 /\ x[Len(x)] = "%" /\ IsDigits(SubSeq(x, 1, Len(x) - 1))

\* \d+\.?\d*
IsPilNumber(x) ==
    LET parts == SplitOn(x, ".")
    IN  /\ Len(parts) <= 2
        /\ IsDigits(parts[1])
        /\ Len(parts) = 2 => \A i \in 1..Len(parts[2]) : parts[2][i] \in Digits

\* \s*(\d+\.?\d*)\s*
IsPilFloat(a) == IsPilNumber(Strip(a))

\* \s*(\d+\.?\d*)%\s*
IsPilFloatPercent(a) ==
    LET x == Strip(a)
    IN  Len(x) >= 2 /\ x[Len(x)] = "%" /\ IsPilNumber(SubSeq(x, 1, Len(x) - 1))

DropPercent(a) == LET x == Strip(a) IN SubSeq(x, 1, Len(x) - 1)

\* 0.5
Half == Fin(FALSE, <<1>>, -1)

\* int(c * 255 + 0.5)
PilScale(c) == DTrunc(DAdd(DMul(c, DInt(255)), Half))

\* 1.0/3.0, 1.0/6.0 and 2.0/3.0
ONE_THIRD == DRatio(1, 3)

ONE_SIXTH == DRatio(1, 6)

TWO_THIRD == DRatio(2, 3)

\* m1 + (m2-m1)*t*6.0
Ramp(m1, m2, t) == DAdd(m1, DMul(DMul(DSub(m2, m1), t), DInt(6)))

\* The return statement of colorsys._v that hue selects: the first for
\* hue < ONE_SIXTH, the second for hue < 0.5, the third for hue < TWO_THIRD, the
\* last otherwise (and for a nan, which is below nothing).
Segment(hue) ==
    IF DLess(hue, ONE_SIXTH) THEN 1
    ELSE IF DLess(hue, Half) THEN 2
    ELSE IF DLess(hue, TWO_THIRD) THEN 3
    ELSE 4

BySegment(m1, m2, hue, seg) ==
    IF seg \in {1, 3} THEN Ramp(m1, m2, IF seg = 1 THEN hue ELSE DSub(TWO_THIRD, hue))
    ELSE IF seg = 2 THEN m2
    ELSE m1

\* colorsys._v, after hue = hue % 1.0
ByHue(m1, m2, hue) == BySegment(m1, m2, hue, Segment(hue))

\* colorsys._v
colorsys_v(m1, m2, hue0) == ByHue(m1, m2, DMod1(hue0))

\* h+ONE_THIRD, h and h-ONE_THIRD: the hue of red, of green and of blue.
HueAt(h, i) ==
    IF i = 2 THEN h ELSE DAdd(h, IF i = 1 THEN ONE_THIRD ELSE DNeg(ONE_THIRD))

\* colorsys.hls_to_rgb, after m2 and m1 = 2.0*l - m2
HlsOf(m1, m2, h) == [i \in 1..3 |-> colorsys_v(m1, m2, HueAt(h, i))]

HlsWith(m2, h, l) == HlsOf(DSub(DMul(DInt(2), l), m2), m2, h)

\* colorsys.hls_to_rgb
hls_to_rgb(h, l, s) ==
    IF DEq(s, DZero) THEN <<l, l, l>>
    ELSE HlsWith(IF DLeq(l, Half) THEN DMul(l, DAdd(DInt(1), s))
                 ELSE DAdd(DAdd(l, s), DNeg(DMul(l, s))),
                 h, l)

\* colorsys.hsv_to_rgb, after i, p, q and t
HsvOf(v, i, p, q, t) ==
    CASE i = 0 -> <<v, t, p>>
      [] i = 1 -> <<q, v, p>>
      [] i = 2 -> <<p, v, t>>
      [] i = 3 -> <<p, q, v>>
      [] i = 4 -> <<t, p, v>>
      [] i = 5 -> <<v, p, q>>

\* v*(1.0 - x) for x = s, s*f and s*(1.0-f)
Shades(v, xs) == [k \in 1..3 |-> DMul(v, DSub(DInt(1), xs[k]))]

HsvShaded(v, i0, pqt) == HsvOf(v, i0 % 6, pqt[1], pqt[2], pqt[3])

HsvWith(s, v, i0, f) ==
    HsvShaded(v, i0, Shades(v, <<s, DMul(s, f), DMul(s, DSub(DInt(1), f))>>))

HsvAt(h, s, v, i0) == HsvWith(s, v, i0, DSub(DMul(h, DInt(6)), DInt(i0)))

\* colorsys.hsv_to_rgb
hsv_to_rgb(h, s, v) ==
    IF DEq(s, DZero) THEN <<v, v, v>>
    ELSE HsvAt(h, s, v, DTrunc(DMul(h, DInt(6))))


\* Three components, each scaled to a byte: int(c * 255 + 0.5).
PilScaled(t) == Ok([i \in 1..3 |-> PilScale(t[i])])

\* #rgb and #rgba: each digit doubled.  #rrggbb and #rrggbbaa: the pairs.
PilHex(c) ==
    IF Len(c) \in {4, 5}
    THEN Ok([i \in 1..(Len(c) - 1) |-> HexByte(c[i + 1], c[i + 1])])
    ELSE Ok([i \in 1..((Len(c) - 1) \div 2) |-> HexByte(c[2 * i], c[2 * i + 1])])

\* rgb(int x3) and rgb(percent x3): int((int(p) * 255) / 100.0 + 0.5).  Nothing is
\* clamped: rgb(300,0,0) is (300, 0, 0).
PilRgb(args) ==
    IF Len(args) = 3 /\ \A i \in 1..3 : IsPilInt(args[i])
    THEN Ok([i \in 1..3 |-> DecVal(Strip(args[i]))])
    ELSE IF Len(args) = 3 /\ \A i \in 1..3 : IsPilPercent(args[i])
    THEN Ok([i \in 1..3 |->
               DTrunc(DAdd(DDivInt(DInt(DecVal(DropPercent(args[i])) * 255), 100), Half))])
    ELSE Fail

\* float(m.group(1)) / 360.0 of the hue, float(m.group(i)) / 100.0 of the two
\* percentages.
PilFractions(args) ==
    [i \in 1..3 |->
        DDivInt(ParseFloat(IF i = 1 THEN Strip(args[1]) ELSE DropPercent(args[i]))[2],
                IF i = 1 THEN 360 ELSE 100)]

IsPilTriple(args) ==
    /\ Len(args) = 3 /\ IsPilFloat(args[1])
    /\ IsPilFloatPercent(args[2]) /\ IsPilFloatPercent(args[3])

\* hsl(h, s%, l%) through hls_to_rgb, hsv(h, s%, v%) through hsv_to_rgb, the
\* fractions t known.
PilColorsys(name, t) ==
    PilScaled(IF name = "hsl" THEN hls_to_rgb(t[1], t[3], t[2])
              ELSE hsv_to_rgb(t[1], t[2], t[3]))

\* hsl(h, s%, l%), and hsv(h, s%, v%) or hsb(h, s%, b%)
PilHueForm(name, args) ==
    IF IsPilTriple(args) THEN PilColorsys(name, PilFractions(args)) ELSE Fail

\* rgba(int x4)
PilRgba(args) ==
    IF Len(args) = 4 /\ \A i \in 1..4 : IsPilInt(args[i])
    THEN Ok([i \in 1..4 |-> DecVal(Strip(args[i]))])
    ELSE Fail

\* hsb( before hsv(
HsvArgs(hsb, hsv) == IF hsb # <<>> THEN hsb ELSE hsv

\* The known string formats of getrgb, after the colormap: #rgb, #rgba, #rrggbb,
\* #rrggbbaa, rgb(), hsl(), hsv()/hsb(), rgba().
PilFormats(c) ==
    IF Len(c) \in {4, 5, 7, 9} /\ c[1] = "#" /\ IsHexLower(Tail(c)) THEN PilHex(c)
    ELSE OrElse(PilRgb(FuncArgs(c, <<"r", "g", "b">>)),
         OrElse(PilHueForm(IF StartsWith(c, <<"h", "s", "l">>) THEN "hsl" ELSE "hsv",
                           IF StartsWith(c, <<"h", "s", "l">>)
                           THEN FuncArgs(c, <<"h", "s", "l">>)
                           ELSE HsvArgs(FuncArgs(c, <<"h", "s", "b">>),
                                        FuncArgs(c, <<"h", "s", "v">>))),
                PilRgba(FuncArgs(c, <<"r", "g", "b", "a">>))))

\* ImageColor.getrgb(color): the text is lowercased, a colormap name is replaced
\* by its hex value, and the result is read by the formats above.
ImageColor_getrgb(color) ==
    IF Len(color) > 100 THEN Fail
    ELSE LET c == Lower(color)
             named == Lookup(PilColormap, c)
         IN  PilFormats(IF named # <<>> THEN named ELSE Chomp(c))

\* ------------------------------------------------------------------------
\* The name table and the helpers of color_to_hex.py
\* ------------------------------------------------------------------------

\* CSS3_NAMES_TO_HEX: the builtin table of the except branch (no webcolors table).
CSS3_NAMES_TO_HEX == <<
    <<<<"b", "l", "a", "c", "k">>,
      <<"#", "0", "0", "0", "0", "0", "0">>>>,
    <<<<"w", "h", "i", "t", "e">>,
      <<"#", "F", "F", "F", "F", "F", "F">>>>,
    <<<<"r", "e", "d">>,
      <<"#", "F", "F", "0", "0", "0", "0">>>>,
    <<<<"g", "r", "e", "e", "n">>,
      <<"#", "0", "0", "8", "0", "0", "0">>>>,
    <<<<"b", "l", "u", "e">>,
      <<"#", "0", "0", "0", "0", "F", "F">>>>,
    <<<<"y", "e", "l", "l", "o", "w">>,
      <<"#", "F", "F", "F", "F", "0", "0">>>>,
    <<<<"c", "r", "i", "m", "s", "o", "n">>,
      <<"#", "D", "C", "1", "4", "3", "C">>>>,
    <<<<"m", "a", "r", "o", "o", "n">>,
      <<"#", "8", "0", "0", "0", "0", "0">>>>,
    <<<<"o", "r", "a", "n", "g", "e">>,
      <<"#", "F", "F", "A", "5", "0", "0">>>>,
    <<<<"p", "i", "n", "k">>,
      <<"#", "F", "F", "C", "0", "C", "B">>>>,
    <<<<"p", "u", "r", "p", "l", "e">>,
      <<"#", "8", "0", "0", "0", "8", "0">>>>,
    <<<<"v", "i", "o", "l", "e", "t">>,
      <<"#", "E", "E", "8", "2", "E", "E">>>>,
    <<<<"b", "r", "o", "w", "n">>,
      <<"#", "A", "5", "2", "A", "2", "A">>>>,
    <<<<"g", "r", "a", "y">>,
      <<"#", "8", "0", "8", "0", "8", "0">>>>,
    <<<<"g", "r", "e", "y">>,
      <<"#", "8", "0", "8", "0", "8", "0">>>>,
    <<<<"s", "i", "l", "v", "e", "r">>,
      <<"#", "C", "0", "C", "0", "C", "0">>>>,
    <<<<"g", "o", "l", "d">>,
      <<"#", "D", "4", "A", "F", "3", "7">>>>,
    <<<<"b", "e", "i", "g", "e">>,
      <<"#", "F", "5", "F", "5", "D", "C">>>>,
    <<<<"o", "l", "i", "v", "e">>,
      <<"#", "8", "0", "8", "0", "0", "0">>>>,
    <<<<"l", "i", "m", "e">>,
      <<"#", "0", "0", "F", "F", "0", "0">>>>,
    <<<<"n", "a", "v", "y">>,
      <<"#", "0", "0", "0", "0", "8", "0">>>>,
    <<<<"t", "e", "a", "l">>,
      <<"#", "0", "0", "8", "0", "8", "0">>>>,
    <<<<"m", "a", "g", "e", "n", "t", "a">>,
      <<"#", "F", "F", "0", "0", "F", "F">>>>,
    <<<<"c", "o", "r", "a", "l">>,
      <<"#", "F", "F", "7", "F", "5", "0">>>>,
    <<<<"s", "a", "l", "m", "o", "n">>,
      <<"#", "F", "A", "8", "0", "7", "2">>>>,
    <<<<"t", "u", "r", "q", "u", "o", "i", "s", "e">>,
      <<"#", "4", "0", "E", "0", "D", "0">>>>,
    <<<<"i", "n", "d", "i", "g", "o">>,
      <<"#", "4", "B", "0", "0", "8", "2">>>>,
    <<<<"b", "u", "r", "g", "u", "n", "d", "y">>,
      <<"#", "8", "0", "0", "0", "2", "0">>>>>>

\* Position of a character in the order Python compares str by, for the lowercase
\* letters the names are made of.
CharRank(c) == CHOOSE i \in 1..Len(LowerLetters) : LowerLetters[i] = c

\* a < b for two names.
RECURSIVE StrLess(_, _)
StrLess(a, b) ==
    IF b = <<>> THEN FALSE
    ELSE IF a = <<>> THEN TRUE
    ELSE IF a[1] # b[1] THEN CharRank(a[1]) < CharRank(b[1])
    ELSE StrLess(Tail(a), Tail(b))

\* sorted(names): selection of the least remaining name.
RECURSIVE SortNames(_)
SortNames(S) ==
    IF S = {} THEN <<>>
    ELSE LET m == CHOOSE x \in S : \A y \in S \ {x} : StrLess(x, y)
         IN  <<m>> \o SortNames(S \ {m})

KNOWN_NAMES == SortNames({CSS3_NAMES_TO_HEX[i][1] : i \in 1..Len(CSS3_NAMES_TO_HEX)})

\* max(0, min(255, n))
Clamped(n) == Max2(0, Min2(255, n))

\* clamp255(v) for an int or a float v: [ok, val].  round() of an infinity or of a
\* nan raises (ok = FALSE); a magnitude of 2^30 or more is clamped as it stands.
clamp255(v) ==
    IF v.kind # "fin" THEN [ok |-> FALSE, val |-> 0]
    ELSE IF NBitLen(v.m) + v.e > 30 THEN [ok |-> TRUE, val |-> IF v.neg THEN 0 ELSE 255]
    ELSE [ok |-> TRUE, val |-> Clamped(DRoundInt(v))]

\* The longest string of digits that int() converts: a longer one raises
\* ValueError.
MaxStrDigits == 4300

\* The digits of a string of digits from its first digit other than 0 on.
Significant(tok) ==
    LET from == {i \in 1..Len(tok) : tok[i] # "0"}
    IN  IF from = {} THEN <<>> ELSE SubSeq(tok, MinOf(from), Len(tok))

\* int(tok) of a string of digits of any length: <<TRUE, the significant digits
\* of the number>>, or <<FALSE, <<>>>> for the ValueError.
IntOf(tok) ==
    IF Len(tok) > MaxStrDigits THEN <<FALSE, <<>>>>
    ELSE <<TRUE, Significant(tok)>>

\* clamp255 of an int that IntOf converted: a number of more than three digits
\* is above 255.  The ValueError of the conversion is kept.
ClampInt(p) ==
    IF ~p[1] THEN [ok |-> FALSE, val |-> 0]
    ELSE [ok |-> TRUE, val |-> IF Len(p[2]) > 3 THEN 255 ELSE Clamped(DecVal(p[2]))]

\* clamp255 of a float that float() converted, its ValueError kept.
ClampIf(p) == IF p[1] THEN clamp255(p[2]) ELSE [ok |-> FALSE, val |-> 0]

\* PERC_RE: one to three digits and a percent sign.
PercentDigits(tok) ==
    IF Len(tok) \in 2..4 /\ tok[Len(tok)] = "%" /\ IsDigits(SubSeq(tok, 1, Len(tok) - 1))
    THEN SubSeq(tok, 1, Len(tok) - 1)
    ELSE <<>>

\* PERC_RE.match(tok): m.group(1), or <<>> when there is no match.
PERC_RE(tok) == PercentDigits(Chomp(tok))

\* pct / 100.0 * 255.0 for pct = float(m.group(1))
PercentOf255(digits) == DMul(DDivInt(DInt(DecVal(digits)), 100), DInt(255))

\* parse_numeric_token after tok = tok.strip(); f is float(tok).
\* [ok, val]: the clamped component, or ok = FALSE for the ValueError (that of
\* int, that of float, and the one raised when clamp255 cannot round an infinity
\* or a nan).
TokenValue(tok, f, is_percent_allowed) ==
    IF PERC_RE(tok) # <<>> /\ is_percent_allowed
    THEN clamp255(PercentOf255(PERC_RE(tok)))
    ELSE IF IsDigits(tok) THEN ClampInt(IntOf(tok))
    ELSE ClampIf(f)

\* An error replaced by the component 0.
Lenient(r) == IF r.ok THEN r ELSE [ok |-> TRUE, val |-> 0]

\* parse_numeric_token that swallows the ValueError and answers 0.
parse_numeric_token_lenient(tok0, is_percent_allowed) ==
    Lenient(TokenValue(Strip(tok0), ParseFloat(Strip(tok0)), is_percent_allowed))

parse_numeric_token(tok0, is_percent_allowed) ==
    TokenValue(Strip(tok0), ParseFloat(Strip(tok0)), is_percent_allowed)

\* The tuple of three clamped components, or the exception of the one that raised.
Components(cs) ==
    IF \A i \in 1..3 : cs[i].ok THEN Ok([i \in 1..3 |-> cs[i].val]) ELSE Fail

\* (clamp255(r * 255), clamp255(g * 255), clamp255(b * 255))
Scale255(t) == Components([i \in 1..3 |-> clamp255(DMul(t[i], DInt(255)))])

hsl_to_rgb_tuple(h, s, l) == Scale255(hls_to_rgb(DDivInt(h, 360), l, s))

\* Uppercase #RRGGBB of a tuple of ints: int(round(c)) is c, then the clamp.
rgb_to_hex(rgb) ==
    <<"#">> \o Format02X(Clamped(rgb[1])) \o Format02X(Clamped(rgb[2]))
            \o Format02X(Clamped(rgb[3]))

\* re.sub(r"[set]+", " ", s): every maximal run of characters of cs becomes one space.
RECURSIVE SubRuns(_, _)
SubRuns(s, cs) ==
    IF s = <<>> THEN <<>>
    ELSE IF s[1] \notin cs THEN <<s[1]>> \o SubRuns(Tail(s), cs)
    ELSE LET rest == {i \in 1..Len(s) : s[i] \notin cs}
         IN  IF rest = {} THEN <<" ">>
             ELSE <<" ">> \o SubRuns(SubSeq(s, MinOf(rest), Len(s)), cs)

\* The characters [^a-z0-9#(),\s-] leaves alone.
NameChars == LowerSet \cup Digits \cup {"#", "(", ")", ",", "-"} \cup Whitespace

normalize_name(text) ==
    IF text = <<>> THEN <<>>
    ELSE LET s1 == Strip(Lower(text))
             s2 == SubRuns(s1, {"\t", "\n", "\r"})
             s3 == [i \in 1..Len(s2) |-> IF s2[i] \in NameChars THEN s2[i] ELSE " "]
             s4 == SubRuns(s3, {"-", "_"})
         IN  SubRuns(s4, Whitespace)

\* rgb[:3] when getrgb returned a tuple of three components or more.
FirstThree(r) == IF r.ok /\ Len(r.rgb) >= 3 THEN Ok(SubSeq(r.rgb, 1, 3)) ELSE Fail

\* The first three components of what getrgb returns, or the ValueError.
try_imagecolor_getrgb(text) == FirstThree(ImageColor_getrgb(text))

\* hexv = CSS3_NAMES_TO_HEX.get(name) of a name that is not empty, <<>> for None.
HexOfName(name) == IF name = <<>> THEN <<>> ELSE Lookup(CSS3_NAMES_TO_HEX, name)

\* Exact lookup in the name table: the rgb of the entry, or Fail for None.
find_by_css3(name) ==
    IF HexOfName(name) # <<>> THEN try_imagecolor_getrgb(HexOfName(name)) ELSE Fail

\* ------------------------------------------------------------------------
\* difflib.get_close_matches, the library call of fuzzy_lookup
\* ------------------------------------------------------------------------

RECURSIVE CommonPrefixLen(_, _, _, _)
CommonPrefixLen(a, i, b, j) ==
    IF i > Len(a) \/ j > Len(b) THEN 0
    ELSE IF a[i] # b[j] THEN 0
    ELSE 1 + CommonPrefixLen(a, i + 1, b, j + 1)

\* Sum of the sizes of SequenceMatcher(None, a, b).get_matching_blocks(): the
\* longest common block (the earliest in a, then the earliest in b), then the same
\* to its left and to its right.  No element is junk below 200 characters.
RECURSIVE MatchingSize(_, _)
MatchingSize(a, b) ==
    IF a = <<>> \/ b = <<>> THEN 0
    ELSE LET pairs == (1..Len(a)) \X (1..Len(b))
             k == [p \in pairs |-> CommonPrefixLen(a, p[1], b, p[2])]
             best == MaxOf({k[p] : p \in pairs})
             i == MinOf({p[1] : p \in {q \in pairs : k[q] = best}})
             j == MinOf({p[2] : p \in {q \in pairs : k[q] = best /\ q[1] = i}})
         IN  IF best = 0 THEN 0
             ELSE best + MatchingSize(SubSeq(a, 1, i - 1), SubSeq(b, 1, j - 1))
                       + MatchingSize(SubSeq(a, i + best, Len(a)),
                                      SubSeq(b, j + best, Len(b)))

\* SequenceMatcher.ratio() >= cutoff, the cutoff in hundredths: 2.0 * M / T.
RatioAtLeast(a, b, cutoff) ==
    IF Len(a) + Len(b) = 0 THEN TRUE
    ELSE 200 * MatchingSize(a, b) >= cutoff * (Len(a) + Len(b))

\* score(x) > score(y), or the scores are equal and x > y: the order of
\* heapq.nlargest over (score, x).
ScoredAbove(word, x, y) ==
    LET mx == MatchingSize(x, word) * (Len(y) + Len(word))
        my == MatchingSize(y, word) * (Len(x) + Len(word))
    IN  mx > my \/ (mx = my /\ StrLess(y, x))

RECURSIVE NLargest(_, _, _)
NLargest(word, S, n) ==
    IF n = 0 \/ S = {} THEN <<>>
    ELSE LET m == CHOOSE x \in S : \A y \in S \ {x} : ScoredAbove(word, x, y)
         IN  <<m>> \o NLargest(word, S \ {m}, n - 1)

\* The at most n possibilities whose ratio to word is at least cutoff, the best
\* first.  (real_quick_ratio and quick_ratio are upper bounds of ratio and only
\* skip work.)
get_close_matches(word, possibilities, n, cutoff) ==
    NLargest(word,
             {possibilities[i] : i \in {j \in 1..Len(possibilities) :
                  RatioAtLeast(possibilities[j], word, cutoff)}},
             n)

\* for m in matches: the rgb of the first match that the table resolves.
RECURSIVE FirstInTable(_)
FirstInTable(matches) ==
    IF matches = <<>> THEN Fail
    ELSE OrElse(find_by_css3(matches[1]), FirstInTable(Tail(matches)))

\* The rgb of the first close match that the table resolves, or Fail for None.
fuzzy_lookup(name, n, cutoff) ==
    IF KNOWN_NAMES = <<>> THEN Fail
    ELSE FirstInTable(get_close_matches(name, KNOWN_NAMES, n, cutoff))

\* ------------------------------------------------------------------------
\* text_to_rgb_extended: names, sub-phrases, averaging, fuzzy matching
\* ------------------------------------------------------------------------

\* What a resolver call ends with: the tuple returned or the exception raised,
\* and the return or raise statement that ended it.
Done(t, stage) == [ok |-> TRUE, rgb |-> t, stage |-> stage]

Raise(stage) == [ok |-> FALSE, rgb |-> <<>>, stage |-> stage]

\* HEX_RE: an optional '#' and exactly six hex digits of either case.
HexSix(s) ==
    LET d == IF s # <<>> /\ s[1] = "#" THEN Tail(s) ELSE s
    IN  Len(d) = 6 /\ \A i \in 1..6 : d[i] \in HexAny

HEX_RE(s) == HexSix(Chomp(s))

adjectives == <<
    <<"l", "i", "g", "h", "t">>,
    <<"d", "a", "r", "k">>,
    <<"p", "a", "l", "e">>,
    <<"d", "e", "e", "p">>,
    <<"m", "e", "d", "i", "u", "m">>,
    <<"v", "e", "r", "y">>,
    <<"v", "i", "v", "i", "d">>,
    <<"b", "r", "i", "g", "h", "t">>>>

\* The cutoff fuzzy_lookup takes when the caller passes none.
DefaultCutoff == 60

\* cutoff and n of the fuzzy lookup of the whole phrase, and of each token.
PhraseCutoff == 55

TokenCutoff == 55

FuzzyN == 5

\* The candidate sub-phrases in the order they are tried: last word, first word,
\* last two words, first two words, the phrase without its adjectives.
Candidates(tokens) ==
    LET n == Len(tokens)
        ends == IF n >= 1 THEN <<tokens[n], tokens[1]>> ELSE <<>>
        pairs == IF n >= 2
                 THEN <<JoinSpace(SubSeq(tokens, n - 1, n)), JoinSpace(SubSeq(tokens, 1, 2))>>
                 ELSE <<>>
        tries == ends \o pairs
        filtered == SelectSeq(tokens,
                        LAMBDA w : \A i \in 1..Len(adjectives) : adjectives[i] # w)
    IN  IF filtered # <<>> /\ \A i \in 1..Len(tries) : tries[i] # JoinSpace(filtered)
        THEN Append(tries, JoinSpace(filtered))
        ELSE tries

\* ResolveWord with the getrgb attempt left out: the table lookup alone.
ResolveWord_table_only(w) == find_by_css3(w)

\* The texts getrgb is given for one candidate or token: the word itself and,
\* when that raises, the hex value find_by_css3 finds for it.
WordTexts(w) == IF HexOfName(w) # <<>> THEN <<w, HexOfName(w)>> ELSE <<w>>

\* The tuple of the first text that getrgb reads.
RECURSIVE FirstRgb(_)
FirstRgb(texts) ==
    IF texts = <<>> THEN Fail
    ELSE OrElse(try_imagecolor_getrgb(texts[1]), FirstRgb(Tail(texts)))

\* One candidate or token: getrgb first, the exact table lookup when it raises.
ResolveWord(w) == FirstRgb(WordTexts(w))

\* for cand in tries: the first candidate that resolves.
RECURSIVE FirstCandidate(_)
FirstCandidate(tries) ==
    IF tries = <<>> THEN Fail
    ELSE OrElse(ResolveWord(tries[1]), FirstCandidate(Tail(tries)))

\* "if rgb_tok: color_tokens.append(rgb_tok)"
Appended(r) == IF r.ok THEN <<r.rgb>> ELSE <<>>

\* The tuples of the tokens that resolve, in order.
RECURSIVE ColorTokens(_)
ColorTokens(tokens) ==
    IF tokens = <<>> THEN <<>>
    ELSE Appended(ResolveWord(tokens[1])) \o ColorTokens(Tail(tokens))

RECURSIVE SumAt(_, _)
SumAt(cs, i) == IF cs = <<>> THEN 0 ELSE cs[1][i] + SumAt(Tail(cs), i)

\* sum(c[i] for c in color_tokens) / n, then int(round(x)), for each component.
AverageOf(cs) == [i \in 1..3 |-> DRoundInt(DRatio(SumAt(cs, i), Len(cs)))]

\* "if rgb: return rgb": the tuple of the attempt r, or what the statements
\* after it give.
ReturnIf(r, stage, rest) == IF r.ok THEN Done(r.rgb, stage) ELSE rest

\* One resolved token is returned as it is, two or more are averaged.
ReturnTokens(color_tokens, rest) ==
    IF Len(color_tokens) = 1 THEN Done(color_tokens[1], "ext_single")
    ELSE IF Len(color_tokens) >= 2 THEN Done(AverageOf(color_tokens), "ext_average")
    ELSE rest

\* "return try_imagecolor_getrgb(...)" inside try/except, one after the other:
\* attempts are pairs <<text, stage>>, and the first text that getrgb reads ends
\* the call at its stage.
RECURSIVE FirstAttempt(_)
FirstAttempt(attempts) ==
    IF attempts = <<>> THEN Raise("none")
    ELSE ReturnIf(try_imagecolor_getrgb(attempts[1][1]), attempts[1][2],
                  FirstAttempt(Tail(attempts)))

\* The result r when it is a tuple, or what the statements after it give.
ReturnOr(r, rest) == IF r.ok THEN r ELSE rest

\* Steps 1) to 3): getrgb of raw, of '#' and the six hex digits when HEX_RE
\* matches, and of the hex value of the entry of norm in the table.
DirectAttempts(raw, norm, squeezed) ==
    <<<<raw, "ext_direct">>>>
    \o (IF HEX_RE(squeezed)
        THEN <<<<<<"#">> \o LStripChars(squeezed, {"#"}), "ext_hex">>>>
        ELSE <<>>)
    \o (IF HexOfName(norm) # <<>> THEN <<<<HexOfName(norm), "ext_css3">>>> ELSE <<>>)

\* Steps 6) and 7): fuzzy_lookup of norm, then of each token: <<name, cutoff, stage>>.
FuzzyAttempts(norm, tokens) ==
    <<<<norm, PhraseCutoff, "ext_fuzzy_phrase">>>>
    \o [i \in 1..Len(tokens) |-> <<tokens[i], TokenCutoff, "ext_fuzzy_token">>]

\* The first fuzzy lookup that answers, or the ValueError that ends the function.
RECURSIVE FirstFuzzy(_)
FirstFuzzy(attempts) ==
    IF attempts = <<>> THEN Raise("ext_unrecognized")
    ELSE ReturnIf(fuzzy_lookup(attempts[1][1], FuzzyN, attempts[1][2]), attempts[1][3],
                  FirstFuzzy(Tail(attempts)))

\* The statements of text_to_rgb_extended after raw and norm are computed.
ExtendedStages(raw, norm, squeezed, tokens) ==
    ReturnOr(FirstAttempt(DirectAttempts(raw, norm, squeezed)),
    ReturnIf(FirstCandidate(Candidates(tokens)), "ext_subphrase",
    ReturnTokens(ColorTokens(tokens),
    FirstFuzzy(FuzzyAttempts(norm, tokens)))))

Normalized(raw, norm) == ExtendedStages(raw, norm, RemoveChar(norm, " "), SplitWords(norm))

Stripped(raw) == Normalized(raw, normalize_name(raw))

text_to_rgb_extended(text) ==
    IF text = <<>> \/ Strip(text) = <<>> THEN Raise("ext_empty")
    ELSE Stripped(Strip(text))

\* ------------------------------------------------------------------------
\* parse_color_input: hex, rgb(), hsl(), plain triples, then the fallback
\* ------------------------------------------------------------------------

\* HEX_SHORT_RE and HEX_LONG_RE: the digits, or <<>> when the text does not match.
HexDigitsOf(s, n) ==
    LET d == IF s # <<>> /\ s[1] = "#" THEN Tail(s) ELSE s
    IN  IF Len(d) = n /\ \A i \in 1..n : d[i] \in HexAny THEN d ELSE <<>>

HEX_SHORT_RE(s) == HexDigitsOf(Chomp(s), 3)

HEX_LONG_RE(s) == HexDigitsOf(Chomp(s), 6)

\* The first index at or after q that holds no whitespace (Len(s) + 1 if none).
SkipSpace(s, q) ==
    LET at == {i \in q..Len(s) : s[i] \notin Whitespace}
    IN  IF at = {} THEN Len(s) + 1 ELSE MinOf(at)

\* name a? \s* \( \s* ([^)]*) \)  matched at index p: <<TRUE, group>> or <<FALSE, <<>>>>.
\* The pattern is case sensitive.
FuncMatchAt(s, p, name) ==
    LET q0 == p + Len(name)
        q1 == IF q0 <= Len(s) /\ s[q0] = "a" THEN q0 + 1 ELSE q0
        q2 == SkipSpace(s, q1)
        q3 == SkipSpace(s, q2 + 1)
        close == {i \in (q2 + 1)..Len(s) : s[i] = ")"}
    IN  IF /\ p + Len(name) - 1 <= Len(s)
           /\ SubSeq(s, p, p + Len(name) - 1) = name
           /\ q2 <= Len(s) /\ s[q2] = "("
           /\ close # {}
        THEN <<TRUE, IF q3 <= MinOf(close) THEN SubSeq(s, q3, MinOf(close) - 1) ELSE <<>>>>
        ELSE <<FALSE, <<>>>>

\* pattern.search(s): the leftmost match.
FuncSearch(s, name) ==
    LET at == {p \in 1..Len(s) : FuncMatchAt(s, p, name)[1]}
    IN  IF at = {} THEN <<FALSE, <<>>>> ELSE FuncMatchAt(s, MinOf(at), name)

RGB_FUNC_RE(s) == FuncSearch(s, <<"r", "g", "b">>)

HSL_FUNC_RE(s) == FuncSearch(s, <<"h", "s", "l">>)

\* [p.strip() for p in group.split(',')]
PartsOf(group) == LET ps == SplitOn(group, ",") IN [i \in 1..Len(ps) |-> Strip(ps[i])]

\* The maximal runs of digits of s, as <<first, last>> index pairs.
RECURSIVE DigitRuns(_, _)
DigitRuns(s, from) ==
    LET start == {i \in from..Len(s) : s[i] \in Digits}
    IN  IF start = {} THEN <<>>
        ELSE LET i == MinOf(start)
                 stop == {j \in i..Len(s) : s[j] \notin Digits}
                 j == IF stop = {} THEN Len(s) + 1 ELSE MinOf(stop)
             IN  <<<<i, j - 1>>>> \o DigitRuns(s, j)

\* PLAIN_RGB_RE: three groups of one to three digits; between two groups
\* \s*[, \s]\s*, which is a non-empty run of whitespace with at most one comma;
\* whitespace only around.  The three groups, or <<>> when the text does not match.
PLAIN_RGB_RE(s) ==
    LET runs == DigitRuns(s, 1)
        gap(a, b) == SubSeq(s, a, b)
        blank(g) == \A i \in 1..Len(g) : g[i] \in Whitespace
        sep(g) == /\ g # <<>>
                  /\ \A i \in 1..Len(g) : g[i] \in Whitespace \cup {","}
                  /\ Cardinality({i \in 1..Len(g) : g[i] = ","}) <= 1
    IN  IF /\ Len(runs) = 3
           /\ \A k \in 1..3 : runs[k][2] - runs[k][1] + 1 <= 3
           /\ blank(gap(1, runs[1][1] - 1))
           /\ sep(gap(runs[1][2] + 1, runs[2][1] - 1))
           /\ sep(gap(runs[2][2] + 1, runs[3][1] - 1))
           /\ blank(gap(runs[3][2] + 1, Len(s)))
        THEN [k \in 1..3 |-> SubSeq(s, runs[k][1], runs[k][2])]
        ELSE <<>>

\* The clamped components of rgb(), or the ValueError of one of them.
RgbOf(r, g, b) ==
    IF ~(r.ok /\ g.ok /\ b.ok) THEN Raise("rgb_token_error")
    ELSE Done(<<r.val, g.val, b.val>>, "rgb_func")

RgbTokens(cs) == RgbOf(cs[1], cs[2], cs[3])

RgbParts(parts) ==
    IF Len(parts) < 3 THEN Raise("rgb_count_error")
    ELSE RgbTokens([i \in 1..3 |-> parse_numeric_token(parts[i], TRUE)])

\* The rgb() branch: three components or the ValueError.
RgbBranch(group) == RgbParts(PartsOf(group))

\* float(h_raw.rstrip('deg')) on both sides of the conditional expression.
HueText(h_raw) ==
    IF EndsWith(h_raw, <<"d", "e", "g">>) \/ IsDigits(RemoveFirst(h_raw, "."))
    THEN RStripChars(h_raw, {"d", "e", "g"})
    ELSE h_raw

\* float(...) / 100.0 for a percentage, the ValueError of float kept.
Hundredth(f, percent) == <<f[1], IF percent THEN DDivInt(f[2], 100) ELSE f[2]>>

\* The text float() is given for the hue (i = 1), and for s_comp and l_comp: a
\* text that ends with no '%' is left as it is by rstrip('%').
HslText(parts, i) ==
    IF i = 1 THEN HueText(Lower(RStrip(parts[1])))
    ELSE RStripChars(Strip(parts[i]), {"%"})

\* h, s_val and l_val: each <<whether float succeeded, the float>>.
HslNumbers(parts) ==
    [i \in 1..3 |->
        Hundredth(ParseFloat(HslText(parts, i)),
                  i > 1 /\ EndsWith(Strip(parts[i]), <<"%">>))]

\* The ValueError of a float(), else hsl_to_rgb_tuple and the exception of its
\* clamp255 when a component is an infinity or a nan.
HslOf(h, s_val, l_val) ==
    IF ~(h[1] /\ s_val[1] /\ l_val[1]) THEN Raise("hsl_token_error")
    ELSE ReturnIf(hsl_to_rgb_tuple(h[2], s_val[2], l_val[2]), "hsl_func",
                  Raise("hsl_round_error"))

HslTriple(n) == HslOf(n[1], n[2], n[3])

HslParts(parts) ==
    IF Len(parts) < 3 THEN Raise("hsl_count_error")
    ELSE HslTriple(HslNumbers(parts))

\* The hsl() branch: hue as a number or with 'deg', saturation and lightness as
\* a fraction or a percentage.
HslBranch(group) == HslParts(PartsOf(group))

\* "#" + "".join(ch * 2 for ch in h)
Doubled(h) == <<"#", h[1], h[1], h[2], h[2], h[3], h[3]>>

\* Steps 1) to 3): getrgb of s, of '#' and the doubled digits when HEX_SHORT_RE
\* matches, of '#' and the digits when HEX_LONG_RE matches.
ParseAttempts(s, short, long) ==
    <<<<s, "direct">>>>
    \o (IF short # <<>> THEN <<<<Doubled(short), "hex_short">>>> ELSE <<>>)
    \o (IF long # <<>> THEN <<<<<<"#">> \o long, "hex_long">>>> ELSE <<>>)

\* fallback_text_to_rgb_fn: None, or text_to_rgb_extended as both handlers pass.
NoFallback == "None"

Extended == "text_to_rgb_extended"

\* "if fallback_text_to_rgb_fn: return fallback_text_to_rgb_fn(s)", else the raise.
Fallback(s, fallback_text_to_rgb_fn) ==
    IF fallback_text_to_rgb_fn = Extended THEN text_to_rgb_extended(s)
    ELSE Raise("unrecognized")

\* The plain triple, or the fallback when the pattern does not match.
PlainOrFallback(plain, s, fallback_text_to_rgb_fn) ==
    IF plain # <<>>
    THEN Done([i \in 1..3 |-> clamp255(DInt(DecVal(plain[i]))).val], "plain")
    ELSE Fallback(s, fallback_text_to_rgb_fn)

\* The functional notations: rgb() before hsl(), then the rest.
FuncStages(rgbm, hslm, s, fallback_text_to_rgb_fn) ==
    IF rgbm[1] THEN RgbBranch(rgbm[2])
    ELSE IF hslm[1] THEN HslBranch(hslm[2])
    ELSE PlainOrFallback(PLAIN_RGB_RE(s), s, fallback_text_to_rgb_fn)

\* The statements of parse_color_input after s = text.strip().
ParseStages(s, fallback_text_to_rgb_fn) ==
    ReturnOr(FirstAttempt(ParseAttempts(s, HEX_SHORT_RE(s), HEX_LONG_RE(s))),
             FuncStages(RGB_FUNC_RE(s), HSL_FUNC_RE(s), s, fallback_text_to_rgb_fn))

parse_color_input(text, fallback_text_to_rgb_fn) ==
    IF text = <<>> \/ Strip(text) = <<>> THEN Raise("empty")
    ELSE ParseStages(Strip(text), fallback_text_to_rgb_fn)

\* ------------------------------------------------------------------------
\* image_dominant_rgb
\* ------------------------------------------------------------------------

\* resize_for_speed=(150, 150), the default, which both handlers leave as it is.
resize_for_speed == <<150, 150>>

\* The images of the inputs are made of SampleW by SampleH rectangles of one
\* colour each: column bands and row bands that divide the image evenly.
SampleW == 2

SampleH == 2

White == <<255, 255, 255>>

\* im.info['transparency'] of a palette image: absent, the index of the one
\* transparent entry, or bytes with the alpha of each entry.
NoTransparency == [kind |-> "absent", index |-> 0, alphas |-> <<>>]

TransparentIndex(t) == [kind |-> "index", index |-> t, alphas |-> <<>>]

TransparencyBytes(a) == [kind |-> "bytes", index |-> 0, alphas |-> a]

\* The image_file part of a request.  kind: "none" when the request has no such
\* part, "unnamed" for a part with an empty filename and no content, "unreadable"
\* for a named file that holds no image, "image" for a named file that
\* Image.open decodes; then the mode, the size, the pixel value of each
\* rectangle row by row and, for the mode P, the palette and the transparency.
Upload(kind, mode, size, pixels, palette, transparency) ==
    [kind |-> kind, mode |-> mode, size |-> size, pixels |-> pixels,
     palette |-> palette, transparency |-> transparency]

NoUpload == Upload("none", "", <<0, 0>>, <<>>, <<>>, NoTransparency)

\* The first of n bands of total pixels that lies after band k.
BandEdge(k, n, total) == (k * total) \div n

\* The number of pixels of rectangle i, the rectangles counted row by row.
CellArea(i, size) ==
    LET col == ((i - 1) % SampleW) + 1
        row == ((i - 1) \div SampleW) + 1
    IN  (BandEdge(col, SampleW, size[1]) - BandEdge(col - 1, SampleW, size[1]))
        * (BandEdge(row, SampleH, size[2]) - BandEdge(row - 1, SampleH, size[2]))

\* im.mode in ("RGBA", "LA") or (im.mode == "P" and "transparency" in im.info)
HasAlpha(im) ==
    im.mode \in {"RGBA", "LA"} \/ (im.mode = "P" /\ im.transparency.kind # "absent")

\* The alpha a palette entry gets from the transparency: 0 for the index named,
\* the byte of the entry, 255 for an entry the bytes do not reach.
PaletteAlpha(t, entry) ==
    IF t.kind = "index" THEN (IF entry = t.index THEN 0 ELSE 255)
    ELSE IF entry + 1 <= Len(t.alphas) THEN t.alphas[entry + 1]
    ELSE 255

\* im.convert("RGBA") of a pixel: a grey repeated, a palette entry looked up.
ToRGBA(im, px) ==
    IF im.mode = "RGBA" THEN px
    ELSE IF im.mode = "LA" THEN <<px[1], px[1], px[1], px[2]>>
    ELSE im.palette[px[1] + 1] \o <<PaletteAlpha(im.transparency, px[1])>>

\* im.convert("RGB") of a pixel of an image without alpha.
ToRGB(im, px) ==
    IF im.mode = "RGB" THEN px
    ELSE IF im.mode = "L" THEN <<px[1], px[1], px[1]>>
    ELSE im.palette[px[1] + 1]

\* The library's division by 255 of a sum of two products of bytes, rounded.
Div255(a) == (((a + 128) \div 256) + a + 128) \div 256

\* A byte of the background under a byte of the image, by the mask.
Blend8(mask, in1, in2) == Div255(in1 * (255 - mask) + in2 * mask)

\* bg.paste(im, mask=im.split()[-1]) on a white background, then convert("RGB"):
\* each band blended with white by the alpha of the pixel.
Composite(px) == [k \in 1..3 |-> Blend8(px[4], White[k], px[k])]

\* The conversion to RGB, composited onto white when the image has alpha.
ConvertRGB(im) ==
    IF HasAlpha(im)
    THEN [i \in 1..Len(im.pixels) |-> Composite(ToRGBA(im, im.pixels[i]))]
    ELSE [i \in 1..Len(im.pixels) |-> ToRGB(im, im.pixels[i])]

\* im.resize(resize_for_speed, BILINEAR) of an image that has that size already:
\* a copy.  Every image of the inputs has the size of the sample.
Resize(pixels) == pixels

\* The rectangles of im after the conversion and the resize.
Resampled(file_stream) == Resize(ConvertRGB(file_stream))

\* The number of pixels of the colour c among the rectangles from i on.
RECURSIVE CountFrom(_, _, _, _)
CountFrom(im, size, c, i) ==
    IF i > Len(im) THEN 0
    ELSE (IF im[i] = c THEN CellArea(i, size) ELSE 0) + CountFrom(im, size, c, i + 1)

\* The (count, colour) pairs of the pixels of the sample.
Histogram(im, size) ==
    {<<CountFrom(im, size, c, 1), c>> : c \in {im[i] : i \in 1..Len(im)}}

\* The lists of the elements of a set h, in every order.
Listings(h) ==
    {f \in [1..Cardinality(h) -> h] :
        \A i, j \in 1..Cardinality(h) : i # j => f[i] # f[j]}

\* Image.getcolors(maxcolors): "an unsorted list of (count, pixel) values", or
\* None (here <<>>) when the image holds more than maxcolors colours.  The order
\* of the list is the library's, so every order is a possible outcome.
GetColors(im, size, maxcolors) ==
    IF Cardinality(Histogram(im, size)) > maxcolors THEN {<<>>}
    ELSE Listings(Histogram(im, size))

\* pal.getpalette() of a list of (count, colour): the colours, flattened.
PaletteOf(listing) == [k \in 1..(3 * Len(listing)) |-> listing[(k + 2) \div 3][2][((k - 1) % 3) + 1]]

\* pal.getcolors() of the same list: (count, palette index).
CountsOf(listing) == [k \in 1..Len(listing) |-> <<listing[k][1], k - 1>>]

\* What the library returns for a sample: colors from getcolors and, when that
\* is None, the palette and the counts of the 16 colour quantisation.
Results(colors, palette, color_counts) ==
    [colors |-> colors, palette |-> palette, color_counts |-> color_counts]

Quantised(im, size) ==
    {Results(<<>>, PaletteOf(f), CountsOf(f)) : f \in Listings(Histogram(im, size))}

Library(im, size, maxcolors) ==
    UNION {IF colors # <<>> THEN {Results(colors, <<>>, <<>>)} ELSE Quantised(im, size) :
           colors \in GetColors(im, size, maxcolors)}

\* The library's part in a request: nothing when Image.open raises.
\* maxcolors = resize_for_speed[0] * resize_for_speed[1] + 1
LibraryOf(file_stream, size) ==
    IF file_stream.kind = "image"
    THEN Library(Resampled(file_stream), size, size[1] * size[2] + 1)
    ELSE {Results(<<>>, <<>>, <<>>)}

\* max(colors, key=lambda t: t[0]): the first entry with the highest count.
MaxByCount(colors) ==
    LET top == MaxOf({colors[i][1] : i \in 1..Len(colors)})
    IN  colors[MinOf({i \in 1..Len(colors) : colors[i][1] = top})]

\* (palette[dominant_index * 3], ... + 1, ... + 2), the palette counted from 1 here.
PaletteAt(palette, dominant_index) ==
    [k \in 1..3 |-> palette[dominant_index * 3 + k]]

\* The statements after getcolors: the most frequent colour of the list, or of
\* the palette when colors is None.  maxcolors is one more than the number of
\* pixels of the sample, so getcolors never answers None for it.
Dominant(lib) ==
    IF lib.colors # <<>> THEN Done(SubSeq(MaxByCount(lib.colors)[2], 1, 3), "histogram")
    ELSE Done(PaletteAt(lib.palette, MaxByCount(lib.color_counts)[2]), "palette")

\* image_dominant_rgb: Image.open raises for a stream that holds no image.
image_dominant_rgb(file_stream, lib) ==
    IF file_stream.kind # "image" THEN Raise("image_error")
    ELSE Dominant(lib)

\* ------------------------------------------------------------------------
\* Requests
\* ------------------------------------------------------------------------

\* Largest number of arguments of a functional notation, and of adjectives of a
\* phrase, among the inputs.
MaxArgs == 4

MaxAdj == 2

\* Sep.join(parts)
RECURSIVE JoinWith(_, _)
JoinWith(parts, sep) ==
    IF parts = <<>> THEN <<>>
    ELSE IF Len(parts) = 1 THEN parts[1]
    ELSE parts[1] \o sep \o JoinWith(Tail(parts), sep)

\* The text of an input: head(parts) for a functional notation, the head and the
\* joined parts otherwise.
Render(sh) ==
    IF sh.kind = "func"
    THEN sh.head \o <<"(">> \o JoinWith(sh.parts, sh.sep) \o <<")">>
    ELSE sh.head \o JoinWith(sh.parts, sh.sep)

Shape(kind, head, parts, sep) == [kind |-> kind, head |-> head, parts |-> parts, sep |-> sep]

NoShape == Shape("none", <<>>, <<>>, <<>>)

HexSample == {"0", "9", "c", "F"}

HexShapes ==
    {Shape("hex", h, <<d>>, <<>>) :
        h \in {<<>>, <<"#">>}, d \in [1..3 -> HexSample] \cup [1..6 -> HexSample]}

RgbNames == {<<"r", "g", "b">>,
            <<"r", "g", "b", "a">>,
            <<"R", "G", "B">>}

HslNames == {<<"h", "s", "l">>,
            <<"h", "s", "l", "a">>,
            <<"H", "S", "L">>}

RgbToks == {<<"3", "0", "0">>,
           <<"-", "1", "0">>,
           <<"1", "e", "2">>,
           <<"i", "n", "f">>,
           <<"1", "2", "8">>,
           <<"1", "5", "0", "%">>,
           <<"4", "0", "%">>,
           <<"x">>}

HueToks == {<<"0">>,
           <<"1", "2", "0">>,
           <<"2", "4", "0", "d", "e", "g">>,
           <<"2", "1", "0">>,
           <<"n", "a", "n">>,
           <<"x">>}

SatToks == {<<"1">>,
           <<"1", "0", "0", "%">>,
           <<"0", ".", "5">>,
           <<"0", ".", "7", "5">>,
           <<"0", ".", "2", "5">>,
           <<"i", "n", "f">>,
           <<"x">>}

LightToks == {<<"0", ".", "5">>,
             <<"5", "0", "%">>,
             <<"0", ".", "2", "5">>,
             <<"0", ".", "4">>,
             <<"5", "e", "-", "1">>,
             <<"x">>}

ShortToks == {<<"1">>,
             <<"1", "x">>,
             <<"x">>}

ArgSeps == {<<",">>, <<",", " ">>, <<"\f", ",", "\f">>}

\* Components among whitespace that str.strip() removes and float() does not
\* (character 28), and that both remove (characters 11 and 12).
ControlArgs == {<<<<"1">>, <<"", "-", "2">>, <<"3">>>>,
               <<<<"1", "", "d", "e", "g">>, <<"1">>, <<"0", ".", "5">>>>,
               <<<<"1", "\f", "d", "e", "g">>, <<"1">>, <<"0", ".", "5">>>>,
               <<<<"\f", "0">>, <<"1", "">>, <<"", "0", ".", "5">>>>}

FuncShapes ==
    {Shape("func", f, a, <<",">>) : f \in RgbNames \cup HslNames, a \in ControlArgs}
    \cup
    {Shape("func", f, a, p) : f \in RgbNames, a \in [1..3 -> RgbToks], p \in ArgSeps}
    \cup
    {Shape("func", f, <<h, s, l>>, p) :
        f \in HslNames, h \in HueToks, s \in SatToks, l \in LightToks, p \in ArgSeps}
    \cup
    {Shape("func", f, a, <<",">>) :
        f \in RgbNames \cup HslNames,
        a \in UNION {[1..n -> ShortToks] : n \in 0..MaxArgs}}

IntToks == {<<"0">>,
           <<"7">>,
           <<"2", "5", "5">>,
           <<"2", "5", "6">>,
           <<"9", "9", "9">>,
           <<"1", "0", "0", "0">>,
           <<"-", "1", "0">>}

PlainSeps == {<<",">>, <<" ">>, <<",", " ">>, <<"\f">>}

PlainShapes == {Shape("plain", <<>>, a, p) : a \in [1..3 -> IntToks], p \in PlainSeps}

AllNames == {KNOWN_NAMES[i] : i \in 1..Len(KNOWN_NAMES)}

AllAdjectives == {adjectives[i] : i \in 1..Len(adjectives)}

NameSample == {<<"b", "l", "u", "e">>,
              <<"r", "e", "d">>,
              <<"y", "e", "l", "l", "o", "w">>,
              <<"g", "o", "l", "d">>,
              <<"b", "u", "r", "g", "u", "n", "d", "y">>,
              <<"g", "r", "a", "y">>}

AdjSample == {<<"l", "i", "g", "h", "t">>,
             <<"v", "e", "r", "y">>,
             <<"d", "e", "e", "p">>}

\* seq with x inserted before index k.
InsertAt(seq, k, x) == SubSeq(seq, 1, k - 1) \o <<x>> \o SubSeq(seq, k, Len(seq))

\* One name among adjectives, in every position: each adjective with each name,
\* and up to MaxAdj sampled adjectives with a sampled name.
AdjNameShapes ==
    {Shape("adjname", <<>>, InsertAt(<<a>>, k, n), <<" ">>) :
        a \in AllAdjectives, n \in AllNames, k \in 1..2}
    \cup
    UNION {{Shape("adjname", <<>>, InsertAt(a, k, n), <<" ">>) :
               a \in [1..m -> AdjSample], n \in NameSample, k \in 1..(m + 1)} :
           m \in 1..MaxAdj}

\* Two names.
NamesShapes == {Shape("names", <<>>, <<a, b>>, <<" ">>) : a \in NameSample, b \in NameSample}

JunkWords == {<<"r", "e", "x", "x">>,
             <<"g", "r", "e", "n">>,
             <<"b", "l", "e", "u">>,
             <<"y", "e", "l", "o", "w">>,
             <<"p", "u", "r", "p", "l">>,
             <<"t", "a", "e", "l">>,
             <<"z", "z", "z", "q", "q", "q", "1", "2", "3">>,
             <<"q", "q", "q", "q", "q", "q">>,
             <<"x", "x">>}

\* Names of the library's colormap that the table of the module lacks.
LibraryNames == {<<"t", "a", "n">>,
                <<"d", "a", "r", "k", "g", "r", "e", "e", "n">>,
                <<"l", "i", "g", "h", "t", "b", "l", "u", "e">>}

\* Words that are no name of the table: alone, in pairs, and around one or two names.
WordsShapes ==
    {Shape("words", <<>>, <<w>>, <<>>) : w \in LibraryNames}
    \cup
    {Shape("words", <<>>, w, <<" ">>) : w \in [1..1 -> JunkWords] \cup [1..2 -> JunkWords]}
    \cup
    {Shape("words", <<>>, <<<<"x", "x">>, a, <<"q", "q">>>>, <<" ">>) : a \in NameSample}
    \cup
    {Shape("words", <<>>, <<<<"x", "x">>, a, b, <<"q", "q">>>>, <<" ">>) :
        a \in NameSample, b \in NameSample}
    \cup
    {Shape("words", <<>>, <<w>>, <<>>) :
        w \in {<<>>, <<" ", " ">>, <<"\f", "r", "e", "d">>, <<"r", "e", "d", "\f", "", "x", "x">>}}

TextShapes ==
    HexShapes \cup FuncShapes \cup PlainShapes \cup AdjNameShapes \cup NamesShapes
    \cup WordsShapes

ByteSample == {0, 1, 9, 10, 15, 16, 127, 128, 254, 255}

RgbInputs == (ByteSample \X ByteSample \X ByteSample) \cup {<<v, v, v>> : v \in 0..255}

Palette == {<<0, 0, 255>>, <<255, 0, 0>>, <<255, 255, 255>>}

\* Pixels with an alpha channel: opaque, half transparent, transparent.
PaletteA == {<<0, 0, 255, 255>>, <<255, 0, 0, 128>>, <<255, 0, 0, 0>>}

\* Grey pixels, and grey pixels with an alpha channel.
PaletteL == {<<0>>, <<200>>}

PaletteLA == {<<0, 255>>, <<128, 64>>}

\* The palette of the images of mode P, their pixels, and what their info holds.
PaletteP == <<<<0, 0, 255>>, <<255, 0, 0>>>>

Entries == {<<0>>, <<1>>}

Transparencies == {NoTransparency, TransparentIndex(1), TransparencyBytes(<<255, 128>>)}

Cells == 1..(SampleW * SampleH)

\* The decoded images: of the size of the sample, in the modes RGB, RGBA, L, LA
\* and P.
Images ==
    {Upload("image", "RGB", resize_for_speed, p, <<>>, NoTransparency) : p \in [Cells -> Palette]}
    \cup
    {Upload("image", "RGBA", resize_for_speed, p, <<>>, NoTransparency) : p \in [Cells -> PaletteA]}
    \cup
    {Upload("image", "L", resize_for_speed, p, <<>>, NoTransparency) : p \in [Cells -> PaletteL]}
    \cup
    {Upload("image", "LA", resize_for_speed, p, <<>>, NoTransparency) : p \in [Cells -> PaletteLA]}
    \cup
    {Upload("image", "P", resize_for_speed, p, PaletteP, t) :
        p \in [Cells -> Entries], t \in Transparencies}

\* The image_file parts: a decoded image, a file that is no image, a part
\* without filename.
Uploads ==
    Images \cup {Upload("unreadable", "", <<0, 0>>, <<>>, <<>>, NoTransparency),
                 Upload("unnamed", "", <<0, 0>>, <<>>, <<>>, NoTransparency)}

\* The texts sent along with an upload, and with a GET: none, blanks, a name, a
\* name among blanks, a text that no stage reads.
FewShapes ==
    {Shape("words", <<>>, <<w>>, <<>>) :
        w \in {<<>>, <<" ", " ">>, <<"\f", "">>, <<"r", "e", "d">>,
               <<" ", "r", "e", "d", " ">>, <<"\f", "r", "e", "d", "">>,
               <<"z", "z", "z", "q", "q", "q", "1", "2", "3">>}}

\* The texts of a direct call of parse_color_input.
ParseShapes == PlainShapes \cup NamesShapes \cup WordsShapes \cup HexShapes

\* ------------------------------------------------------------------------
\* State and operations
\* ------------------------------------------------------------------------

VARIABLES
    op,       \* "index", "api_hex", "parse" or "format": what is called
    method,   \* request.method of a handler
    upload,   \* the image_file part of the request of a handler
    shape,    \* how the text was put together
    text,     \* color_text of the form, q of the query or the body, or the argument
    rgbIn,    \* the tuple to format
    pc,       \* "ready" before the call, "done" after
    out       \* the outcome: ok, rgb, hex, the statement that ended the call and
              \* the branch of the handler that ran

vars == <<op, method, upload, shape, text, rgbIn, pc, out>>

\* A response without a colour that no resolver produced.
Nothing(stage) ==
    [ok |-> FALSE, rgb |-> <<>>, hex |-> <<>>, stage |-> stage, branch |-> "none"]

NoOut == Nothing("none")

\* rgb and hexcode of a handler: hexcode = rgb_to_hex(rgb) when no exception,
\* the flash or the status 400 otherwise.
Outcome(r, branch) ==
    [ok |-> r.ok, rgb |-> r.rgb, hex |-> IF r.ok THEN rgb_to_hex(r.rgb) ELSE <<>>,
     stage |-> r.stage, branch |-> branch]

\* The resolver of a handler: the upload when it is taken, the text otherwise.
Resolved(from_image, file_stream, lib, s) ==
    IF from_image THEN Outcome(image_dominant_rgb(file_stream, lib), "image")
    ELSE Outcome(parse_color_input(s, Extended), "text")

\* index: nothing is resolved for a GET; for a POST the file when it has a
\* filename, else the stripped color_text, else the flash that asks for either.
index(request_method, file, color_text, lib) ==
    IF request_method # "POST" THEN Nothing("get")
    ELSE IF file.kind \notin {"image", "unreadable"} /\ color_text = <<>>
    THEN Nothing("no_input")
    ELSE Resolved(file.kind \in {"image", "unreadable"}, file, lib, color_text)

\* api_hex: 400 'Missing q parameter' for a blank q, before anything is read;
\* then the image_file part when the request has one, else q.
api_hex(file, q, lib) ==
    IF q = <<>> THEN Nothing("missing_q")
    ELSE Resolved(file.kind # "none", file, lib, q)

Handlers == {"index", "api_hex"}

Methods == {"GET", "POST"}

Init ==
    /\ pc = "ready"
    /\ out = NoOut
    /\ \/ /\ op \in Handlers
          /\ method = "POST"
          /\ upload = NoUpload
          /\ shape \in TextShapes
          /\ text = Render(shape)
          /\ rgbIn = <<>>
       \/ /\ op \in Handlers
          /\ method = "POST"
          /\ upload \in Uploads
          /\ shape \in FewShapes
          /\ text = Render(shape)
          /\ rgbIn = <<>>
       \/ /\ op \in Handlers
          /\ method = "GET"
          /\ upload = NoUpload
          /\ shape \in FewShapes
          /\ text = Render(shape)
          /\ rgbIn = <<>>
       \/ /\ op = "parse"
          /\ method = "none"
          /\ upload = NoUpload
          /\ shape \in ParseShapes
          /\ text = Render(shape)
          /\ rgbIn = <<>>
       \/ /\ op = "format"
          /\ method = "none"
          /\ upload = NoUpload
          /\ rgbIn \in RgbInputs
          /\ shape = NoShape
          /\ text = <<>>

\* A request to '/'.
Index ==
    /\ pc = "ready"
    /\ op = "index"
    /\ \E lib \in LibraryOf(upload, resize_for_speed) :
           out' = index(method, upload, Strip(text), lib)
    /\ pc' = "done"
    /\ UNCHANGED <<op, method, upload, shape, text, rgbIn>>

\* A request to '/api/hex'; q is read from the query of a GET and from the body
\* of a POST.
ApiHex ==
    /\ pc = "ready"
    /\ op = "api_hex"
    /\ \E lib \in LibraryOf(upload, resize_for_speed) :
           out' = api_hex(upload, Strip(text), lib)
    /\ pc' = "done"
    /\ UNCHANGED <<op, method, upload, shape, text, rgbIn>>

\* parse_color_input(text), the fallback left to its default None.
Parse ==
    /\ pc = "ready"
    /\ op = "parse"
    /\ out' = Outcome(parse_color_input(text, NoFallback), "text")
    /\ pc' = "done"
    /\ UNCHANGED <<op, method, upload, shape, text, rgbIn>>

\* rgb_to_hex of a tuple, and parse_color_input of the string it gives.
FormatAndReparse ==
    /\ pc = "ready"
    /\ op = "format"
    /\ out' = Outcome(parse_color_input(rgb_to_hex(rgbIn), NoFallback), "text")
    /\ pc' = "done"
    /\ UNCHANGED <<op, method, upload, shape, text, rgbIn>>

Next == Index \/ ApiHex \/ Parse \/ FormatAndReparse

Spec == Init /\ [][Next]_vars

\* ------------------------------------------------------------------------
\* Properties
\* ------------------------------------------------------------------------

\* A handler has answered from the text of the request.
TextDone == op \in Handlers /\ pc = "done" /\ out.branch = "text"

\* The integer a token [-]digits spells.
IsIntTok(tok) ==
    IsDigits(tok) \/ (Len(tok) >= 2 /\ tok[1] = "-" /\ IsDigits(Tail(tok)))

SignedVal(tok) == IF tok[1] = "-" THEN -DecVal(Tail(tok)) ELSE DecVal(tok)

IsPctTok(tok) ==
    Len(tok) >= 2 /\ tok[Len(tok)] = "%" /\ IsDigits(SubSeq(tok, 1, Len(tok) - 1))

ClampByte(n) == IF n < 0 THEN 0 ELSE IF n > 255 THEN 255 ELSE n

\* The integer nearest to n/d for n >= 0 and d > 0, the even one of two.
NearestInt(n, d) ==
    IF 2 * (n % d) > d \/ (2 * (n % d) = d /\ (n \div d) % 2 = 1)
    THEN (n \div d) + 1 ELSE n \div d

\* The component a numeric token stands for, clamped: the integer itself, or the
\* percentage of 255.
ComponentOf(tok) ==
    IF IsPctTok(tok)
    THEN ClampByte(NearestInt(DecVal(SubSeq(tok, 1, Len(tok) - 1)) * 255, 100))
    ELSE ClampByte(SignedVal(tok))

LowerRgbNames == {<<"r", "g", "b">>, <<"r", "g", "b", "a">>}

LowerFuncNames == LowerRgbNames \cup {<<"h", "s", "l">>, <<"h", "s", "l", "a">>}

\* C1: an rgb()/rgba() text whose first three components are integers (negative
\* or above 255 included) or percentages resolves to those components, each
\* clamped to [0,255].
C1_RgbFuncClamped ==
    (/\ TextDone
     /\ shape.kind = "func"
     /\ shape.head \in LowerRgbNames
     /\ Len(shape.parts) >= 3
     /\ \A i \in 1..3 : IsIntTok(shape.parts[i]) \/ IsPctTok(shape.parts[i]))
    => /\ out.ok
       /\ out.rgb = [i \in 1..3 |-> ComponentOf(shape.parts[i])]

\* C2: a phrase of two names resolves to the component-wise mean of the two
\* names' tuples, each component rounded.
C2_TwoNamesAverage ==
    (TextDone /\ shape.kind = "names")
    => LET a == parse_color_input(shape.parts[1], Extended).rgb
           b == parse_color_input(shape.parts[2], Extended).rgb
       IN  /\ out.ok
           /\ out.rgb = [i \in 1..3 |-> NearestInt(a[i] + b[i], 2)]

\* C3: three integers separated by a comma and/or whitespace, negative or of any
\* number of digits included, are resolved by the plain triple stage to each
\* integer clamped to [0,255], never rejected nor handed to the fallback.
C3_PlainTripleClamped ==
    (TextDone /\ shape.kind = "plain")
    => /\ out.ok
       /\ out.stage = "plain"
       /\ out.rgb = [i \in 1..3 |-> ClampByte(SignedVal(shape.parts[i]))]

\* The characters of the notations of a number: digits, sign, point, exponent,
\* underscore, percent, whitespace, and the letters of the suffix deg.
NumberChars == Digits \cup {"+", "-", ".", "e", "E", "_", "%", "d", "g"} \cup Whitespace

\* A component that no conversion reads as a number: it holds no digit, or a
\* character of no notation of a number, and spells neither an infinity nor a nan.
NoNumber(tok) ==
    /\ \/ \A i \in 1..Len(tok) : tok[i] \notin Digits
       \/ \E i \in 1..Len(tok) : tok[i] \notin NumberChars
    /\ Lower(tok) \notin {<<"i", "n", "f">>, <<"n", "a", "n">>}

\* Fewer than three components, or one of the first three that is no number.
Malformed(sh) ==
    Len(sh.parts) < 3 \/ \E i \in 1..3 : NoNumber(sh.parts[i])

\* Fewer than three components, or any one that is no number.
MalformedAnywhere(sh) ==
    Len(sh.parts) < 3 \/ \E i \in 1..Len(sh.parts) : NoNumber(sh.parts[i])

FuncErrors == {"rgb_count_error", "rgb_token_error", "hsl_count_error", "hsl_token_error"}

\* C4, as stated: a text of the rgb()/rgba()/hsl()/hsla() shape with fewer than
\* three components, or with a component that is no number, ends with an error.
C4_AnyComponentIsError ==
    (/\ TextDone
     /\ shape.kind = "func"
     /\ shape.head \in LowerFuncNames
     /\ MalformedAnywhere(shape))
    => /\ ~out.ok
       /\ out.stage \in FuncErrors

\* C4, amended: a text of the rgb()/rgba()/hsl()/hsla() shape with fewer than
\* three components, or with one of the first three that is no number, ends with
\* the error of that stage, and no later stage (plain triple, names, averaging,
\* fuzzy) ends the call; a text with three numbers first resolves whatever the
\* components after the third are.
C4_MalformedFuncIsError ==
    (/\ TextDone
     /\ shape.kind = "func"
     /\ shape.head \in LowerFuncNames)
    => /\ Malformed(shape) => (~out.ok /\ out.stage \in FuncErrors)
       /\ (MalformedAnywhere(shape) /\ ~Malformed(shape))
          => (out.ok /\ out.stage \in {"rgb_func", "hsl_func"})

\* rgb(128,1x,40%) ends with the error of the rgb() stage, the second component
\* being no number.
C4_Witness ==
    /\ TextDone
    /\ shape.kind = "func"
    /\ shape.head = <<"r", "g", "b">>
    /\ shape.parts = <<<<"1">>, <<"1", "x">>, <<"1">>>>
    /\ Malformed(shape)
    /\ out.stage = "rgb_token_error"

\* C5: formatting a tuple of [0,255]^3 with rgb_to_hex and resolving the hex
\* string gives the tuple back.
C5_HexRoundTrip ==
    (op = "format" /\ pc = "done") => (out.ok /\ out.rgb = rgbIn)

C5_Witness ==
    /\ op = "format"
    /\ pc = "done"
    /\ rgbIn = <<9, 255, 128>>
    /\ out.rgb = <<9, 255, 128>>

\* C6: six hex digits of any case, with or without '#', resolve and format to
\* '#' and the same six digits in upper case.
C6_SixDigitHexUppercased ==
    (TextDone /\ shape.kind = "hex" /\ Len(shape.parts[1]) = 6)
    => /\ out.ok
       /\ out.hex = <<"#">> \o Upper(shape.parts[1])

C6_Witness ==
    /\ TextDone
    /\ shape.kind = "hex"
    /\ shape.head = <<>>
    /\ shape.parts[1] = <<"c", "F", "0", "9", "c", "F">>
    /\ out.stage = "hex_long"
    /\ out.hex = <<"#", "C", "F", "0", "9", "C", "F">>

\* The one name of a phrase of adjectives and a name.
NameOf(sh) == sh.parts[CHOOSE i \in 1..Len(sh.parts) : sh.parts[i] \in AllNames]

\* C7: a phrase of one or more adjectives of the stop list and exactly one name,
\* in any order, resolves to what the name alone resolves to.
C7_AdjectivesIgnored ==
    (TextDone /\ shape.kind = "adjname")
    => /\ out.ok
       /\ out.rgb = parse_color_input(NameOf(shape), Extended).rgb

C7_Witness ==
    /\ TextDone
    /\ shape.kind = "adjname"
    /\ shape.parts = <<<<"l", "i", "g", "h", "t">>, <<"b", "l", "u", "e">>>>
    /\ out.stage = "ext_subphrase"
    /\ out.rgb = <<0, 0, 255>>

\* Some name is as similar to the normalized text as the cutoff (in hundredths)
\* and has the tuple returned.
MatchedAt(cutoff) ==
    \E i \in 1..Len(KNOWN_NAMES) :
        /\ RatioAtLeast(KNOWN_NAMES[i], normalize_name(Strip(text)), cutoff)
        /\ out.rgb = find_by_css3(KNOWN_NAMES[i]).rgb

\* C8: the match of the whole phrase returns a name only when its similarity to
\* the phrase is at least 0.6; a name that is less similar is not returned by
\* the match of the whole phrase.
C8_PhraseCutoffSixty ==
    (TextDone /\ out.stage = "ext_fuzzy_phrase") => MatchedAt(DefaultCutoff)

StructuredStages == {"direct", "hex_short", "hex_long", "rgb_func", "hsl_func", "plain"}

\* C9: the letter case of a text that matches a structured format does not
\* change the outcome: the text resolves as its lowercase form does.
C9_CaseInsensitive ==
    (TextDone /\ shape.kind \in {"hex", "func", "plain"})
    => LET lower == parse_color_input(Lower(text), Extended)
       IN  lower.stage \in StructuredStages
           => (out.ok = lower.ok /\ out.rgb = lower.rgb)

\* C10: the dominant colour has the highest count of the sample, and among the
\* colours that share the highest count it is the first in row-major order.
C10_FirstEncounteredWins ==
    (pc = "done" /\ out.branch = "image" /\ out.ok)
    => LET sample == Resampled(upload)
           count(c) == CountFrom(sample, resize_for_speed, c, 1)
           top == MaxOf({count(sample[i]) : i \in 1..Len(sample)})
           first == MinOf({i \in 1..Len(sample) : count(sample[i]) = top})
       IN  /\ count(out.rgb) = top
           /\ out.rgb = sample[first]

=============================================================================
